---- MODULE Spec2Model ----
(***************************************************************************)
(* A model of the school-management service: the hierarchical             *)
(* authorization engine (layer tree, action lattice, direct grants) and    *)
(* the entity/relation store with the classroom and student managers that  *)
(* run on it.                                                              *)
(***************************************************************************)
EXTENDS Integers, Sequences, FiniteSets, TLC

VARIABLES
    tree,       \* the layer tree the engine was constructed with
    grants,     \* direct grants: a set of <<userId, layerId, action>>
    call,       \* the last call into the engine, with its result
    blocks,     \* entity store: block id -> attributes, or NoBlock
    rels,       \* entity store: source id -> the members of its _members relation
    req,        \* the requests in flight: their position and local variables
    resp,       \* the last response of each request slot
    nextId,     \* how many ids nanoid() has generated
    started,    \* how many requests were started
    created,    \* the classroom ids createClassroom has stored a block under
    cache,      \* the cache: key -> its counter and whether it has an expiry
    mw,         \* rate limiter: the invocations in flight and their locals
    passed      \* rate limiter: per IP, the calls of next() in its window

authVars == <<tree, grants, call>>
storeVars == <<blocks, rels, req, resp, nextId, started, created>>
rateVars == <<cache, mw, passed>>
vars == <<tree, grants, call, blocks, rels, req, resp, nextId, started, created,
          cache, mw, passed>>

(***************************************************************************)
(* Action lattice                                                          *)
(***************************************************************************)

\* The table with update ranked lowest of the real actions.
actions_updateLowest ==
    [ blocked |-> -1,
      none    |-> 1,
      read    |-> 2,
      create  |-> 3,
      audit   |-> 4,
      config  |-> 5,
      delete  |-> 6,
      update  |-> 0 ]

\* The table with blocked ranked as a real action, above none.
actions_blockedRanked ==
    [ blocked |-> 2,
      none    |-> 1,
      read    |-> 3,
      create  |-> 4,
      audit   |-> 5,
      config  |-> 6,
      delete  |-> 7,
      update  |-> 8 ]

\* The table with delete ranked above update.
actions_deleteAboveUpdate ==
    [ blocked |-> -1,
      none    |-> 1,
      read    |-> 2,
      create  |-> 3,
      audit   |-> 4,
      config  |-> 5,
      delete  |-> 7,
      update  |-> 6 ]

\* static_arch/main.system.js: const actions = { blocked: -1, none: 1, ... }
actions ==
    [ blocked |-> -1,
      none    |-> 1,
      read    |-> 2,
      create  |-> 3,
      audit   |-> 4,
      config  |-> 5,
      delete  |-> 6,
      update  |-> 7 ]

ActionNames == DOMAIN actions

\* rank(action): the number the table gives the action.
rank(a) == actions[a]

\* atLeast(actual, required): rank(actual) >= rank(required). A name the table
\* does not define has no rank, and a comparison with it is false.
atLeast(actual, required) ==
    /\ actual \in ActionNames
    /\ required \in ActionNames
    /\ rank(actual) >= rank(required)

(***************************************************************************)
(* Layer tree                                                              *)
(***************************************************************************)

Variants == {"_default", "_public", "_private", "_store"}
Categories == {"anyone", "owner", "admin", "superAdmin"}

\* The key of a category in a rule set: anyoneCan, ownerCan, adminCan, superAdminCan.
canKey(category) ==
    CASE category = "anyone"     -> "anyoneCan"
      [] category = "owner"      -> "ownerCan"
      [] category = "admin"      -> "adminCan"
      [] category = "superAdmin" -> "superAdminCan"
      [] OTHER                   -> "unknownCan"

NoRules == [k \in {} |-> "blocked"]
InheritOnly == [inherit |-> TRUE, can |-> NoRules]
RuleSet(can) == [inherit |-> FALSE, can |-> can]

\* The tree with a rule for anyone at board.school.class.
layers_classAnyoneRead ==
    ( <<"board">> :>
        [ _default |-> RuleSet(("anyoneCan" :> "read") @@ ("ownerCan" :> "audit")),
          _public  |-> RuleSet(("anyoneCan" :> "create") @@ ("ownerCan" :> "audit")),
          _private |-> RuleSet(("anyoneCan" :> "none")),
          _store   |-> RuleSet(("anyoneCan" :> "read") @@ ("noOneCan" :> "create")) ] )
    @@
    ( <<"board", "school">> :>
        [ _default |-> RuleSet(("adminCan" :> "read") @@ ("superAdminCan" :> "update")),
          _public  |-> RuleSet(("anyoneCan" :> "none")),
          _private |-> InheritOnly,
          _store   |-> InheritOnly ] )
    @@
    ( <<"board", "school", "class">> :>
        [ _default |-> RuleSet(("adminCan" :> "update") @@ ("superAdminCan" :> "read")
                                @@ ("anyoneCan" :> "read")),
          _public  |-> InheritOnly,
          _private |-> InheritOnly,
          _store   |-> InheritOnly ] )
    @@
    ( <<"board", "school", "class", "student">> :>
        [ _default |-> RuleSet(("adminCan" :> "update") @@ ("superAdminCan" :> "none")),
          _public  |-> InheritOnly,
          _private |-> InheritOnly,
          _store   |-> InheritOnly ] )

\* The tree with adminCan: update at board.school.
layers_schoolAdminUpdate ==
    ( <<"board">> :>
        [ _default |-> RuleSet(("anyoneCan" :> "read") @@ ("ownerCan" :> "audit")),
          _public  |-> RuleSet(("anyoneCan" :> "create") @@ ("ownerCan" :> "audit")),
          _private |-> RuleSet(("anyoneCan" :> "none")),
          _store   |-> RuleSet(("anyoneCan" :> "read") @@ ("noOneCan" :> "create")) ] )
    @@
    ( <<"board", "school">> :>
        [ _default |-> RuleSet(("adminCan" :> "update") @@ ("superAdminCan" :> "update")),
          _public  |-> RuleSet(("anyoneCan" :> "none")),
          _private |-> InheritOnly,
          _store   |-> InheritOnly ] )
    @@
    ( <<"board", "school", "class">> :>
        [ _default |-> RuleSet(("adminCan" :> "update") @@ ("superAdminCan" :> "read")),
          _public  |-> InheritOnly,
          _private |-> InheritOnly,
          _store   |-> InheritOnly ] )
    @@
    ( <<"board", "school", "class", "student">> :>
        [ _default |-> RuleSet(("adminCan" :> "update") @@ ("superAdminCan" :> "none")),
          _public  |-> InheritOnly,
          _private |-> InheritOnly,
          _store   |-> InheritOnly ] )

\* The tree without the explicit superAdminCan: none at board.school.class.student.
layers_studentSuperAdminUnset ==
    ( <<"board">> :>
        [ _default |-> RuleSet(("anyoneCan" :> "read") @@ ("ownerCan" :> "audit")),
          _public  |-> RuleSet(("anyoneCan" :> "create") @@ ("ownerCan" :> "audit")),
          _private |-> RuleSet(("anyoneCan" :> "none")),
          _store   |-> RuleSet(("anyoneCan" :> "read") @@ ("noOneCan" :> "create")) ] )
    @@
    ( <<"board", "school">> :>
        [ _default |-> RuleSet(("adminCan" :> "read") @@ ("superAdminCan" :> "update")),
          _public  |-> RuleSet(("anyoneCan" :> "none")),
          _private |-> InheritOnly,
          _store   |-> InheritOnly ] )
    @@
    ( <<"board", "school", "class">> :>
        [ _default |-> RuleSet(("adminCan" :> "update") @@ ("superAdminCan" :> "read")),
          _public  |-> InheritOnly,
          _private |-> InheritOnly,
          _store   |-> InheritOnly ] )
    @@
    ( <<"board", "school", "class", "student">> :>
        [ _default |-> RuleSet(("adminCan" :> "update")),
          _public  |-> InheritOnly,
          _private |-> InheritOnly,
          _store   |-> InheritOnly ] )

\* static_arch/main.system.js: const layers = { board: { ... } }. A layer id is
\* kept as the list of its dot-separated segments: "board.school" is
\* <<"board", "school">>.
layers ==
    ( <<"board">> :>
        [ _default |-> RuleSet(("anyoneCan" :> "read") @@ ("ownerCan" :> "audit")),
          _public  |-> RuleSet(("anyoneCan" :> "create") @@ ("ownerCan" :> "audit")),
          _private |-> RuleSet(("anyoneCan" :> "none")),
          _store   |-> RuleSet(("anyoneCan" :> "read") @@ ("noOneCan" :> "create")) ] )
    @@
    ( <<"board", "school">> :>
        [ _default |-> RuleSet(("adminCan" :> "read") @@ ("superAdminCan" :> "update")),
          _public  |-> RuleSet(("anyoneCan" :> "none")),
          _private |-> InheritOnly,
          _store   |-> InheritOnly ] )
    @@
    ( <<"board", "school", "class">> :>
        [ _default |-> RuleSet(("adminCan" :> "update") @@ ("superAdminCan" :> "read")),
          _public  |-> InheritOnly,
          _private |-> InheritOnly,
          _store   |-> InheritOnly ] )
    @@
    ( <<"board", "school", "class", "student">> :>
        [ _default |-> RuleSet(("adminCan" :> "update") @@ ("superAdminCan" :> "none")),
          _public  |-> InheritOnly,
          _private |-> InheritOnly,
          _store   |-> InheritOnly ] )

\* The same tree with inherit: true on every rule set, the explicit rules kept.
layersInheriting ==
    [p \in DOMAIN layers |->
        [v \in Variants |-> [inherit |-> TRUE, can |-> layers[p][v].can]]]

TreeInputs == {layers, layersInheriting}

\* The static layers the managers name.
StaticRoot == <<"board">>
SchoolLayer == <<"board", "school">>
ClassLayer == <<"board", "school", "class">>
StudentLayer == <<"board", "school", "class", "student">>

Parent(path) == SubSeq(path, 1, Len(path) - 1)

\* Unknown path segments as leaves that do not inherit.
NodeRules_noInherit(t, path) ==
    IF path \in DOMAIN t THEN t[path]
    ELSE [v \in Variants |-> [inherit |-> FALSE, can |-> NoRules]]

\* A path segment the tree does not define is a leaf that inherits and has no rules.
NodeRules(t, path) ==
    IF path \in DOMAIN t THEN t[path] ELSE [v \in Variants |-> InheritOnly]

\* resolveRule(nodeId, variant, category) on tree t.
RECURSIVE resolveRuleIn(_, _, _, _)
resolveRuleIn(t, path, variant, category) ==
    IF path = <<>> THEN "blocked"
    ELSE LET rs == NodeRules(t, path)[variant] IN
         IF canKey(category) \in DOMAIN rs.can THEN rs.can[canKey(category)]
         ELSE IF rs.inherit THEN resolveRuleIn(t, Parent(path), variant, category)
         ELSE "blocked"

resolveRule(nodeId, variant, category) == resolveRuleIn(tree, nodeId, variant, category)

(***************************************************************************)
(* Authorization engine                                                    *)
(***************************************************************************)

\* A direct grant that also covers the layer ids below the one it was given at.
hasDirectGrant_descendants(userId, layerId, action) ==
    \E g \in grants :
        /\ g[1] = userId
        /\ Len(g[2]) <= Len(layerId)
        /\ SubSeq(layerId, 1, Len(g[2])) = g[2]
        /\ atLeast(g[3], action)

\* A direct grant of the user at exactly this layer id that covers the action.
hasDirectGrant(userId, layerId, action) ==
    \E g \in grants : g[1] = userId /\ g[2] = layerId /\ atLeast(g[3], action)

\* A layer id that is not a dot-path of non-empty segments: the empty id, or
\* one with an empty segment ("board..school").
malformed(layerId) ==
    \/ layerId = <<>>
    \/ \E i \in 1..Len(layerId) : layerId[i] = ""

\* isGranted that resolves a malformed layer id like any other.
isGranted_malformedResolved(userId, category, layerId, action) ==
    \/ hasDirectGrant(userId, layerId, action)
    \/ LET allowed == resolveRule(layerId, "_default", category) IN
         /\ allowed # "blocked"
         /\ atLeast(allowed, action)

\* isGranted({ category, layerId, action, userId }): a covering direct grant
\* grants at once; otherwise a malformed layer id is denied (InvalidGrant), the
\* rule of the category at the layer decides, and the sentinel blocked always
\* denies.
isGranted(userId, category, layerId, action) ==
    \/ hasDirectGrant(userId, layerId, action)
    \/ /\ ~malformed(layerId)
       /\ LET allowed == resolveRule(layerId, "_default", category) IN
            /\ allowed # "blocked"
            /\ atLeast(allowed, action)

\* addDirectAccess({ userId, nodeId, action }): direct grants are keyed by
\* (userId, layerId) and hold one action each, so that a grant given again at
\* the same key replaces the action stored there.
addDirectAccess(userId, nodeId, action) ==
    {g \in grants : ~(g[1] = userId /\ g[2] = nodeId)} \cup {<<userId, nodeId, action>>}

\* No call into the engine is in progress.
NoCall ==
    [ op |-> "none", userId |-> "", category |-> "", layerId |-> <<>>,
      variant |-> "", action |-> "", rule |-> "", granted |-> FALSE ]

(***************************************************************************)
(* Entity store: blocks and relations                                      *)
(***************************************************************************)

\* A block id "label:id" is kept as <<label, id>>. The result of get_block on a
\* miss is the empty object.
EmptyBlock == [label |-> ""]
isEmptyObject(b) == b = EmptyBlock

\* The value of an attribute that is null or was never supplied.
Null == "null"

\* get_block(id)
getBlock(bs, id) == IF id \in DOMAIN bs THEN bs[id] ELSE EmptyBlock

\* add_block(block): stores the block unless the id is taken.
blockExists(bs, id) == id \in DOMAIN bs
addBlock(bs, id, attributes) ==
    IF id \in DOMAIN bs THEN bs ELSE (id :> attributes) @@ bs

\* update_block({ _id, ...partial }): merges the attributes named in partial
\* into the stored block; nothing is created for an id that is not stored.
updateBlock(bs, id, partial) ==
    IF id \in DOMAIN bs THEN [bs EXCEPT ![id] = partial @@ @] ELSE bs

\* delete_block(id): removes the block; an absent id is left absent.
deleteBlock(bs, id) == [i \in DOMAIN bs \ {id} |-> bs[i]]

\* A relation is kept under <<sourceId, relationName>> as a function from member
\* id to score; a relation that was never written has no members.
NoMembers == [m \in {} |-> 0]
relationOf(rs, id, relation) ==
    IF <<id, relation>> \in DOMAIN rs THEN rs[<<id, relation>>] ELSE NoMembers

\* update_relations({ _id, add: { relation: ["member~score"] } })
relationsAdd(rs, id, relation, member, score) ==
    (<<id, relation>> :> ((member :> score) @@ relationOf(rs, id, relation))) @@ rs

\* update_relations({ _id, remove: { relation: ["member"] } })
relationsRemove(rs, id, relation, member) ==
    LET old == relationOf(rs, id, relation) IN
    (<<id, relation>> :> [m \in DOMAIN old \ {member} |-> old[m]]) @@ rs

\* update_relations({ _id, set: { relation: [members] } }): the named relation
\* becomes exactly these members.
relationsSet(rs, id, relation, members) ==
    (<<id, relation>> :> [m \in members |-> 1]) @@ rs

\* delete_relations({ _id }): every relation whose source is id goes.
deleteRelations(rs, id) == [k \in {j \in DOMAIN rs : j[1] # id} |-> rs[k]]

\* What add_block and update_block answer.
addBlockResult(bs, id) == IF id \in DOMAIN bs THEN "AlreadyExists" ELSE "ok"
updateBlockResult(bs, id) == IF id \in DOMAIN bs THEN "ok" ELSE "NotFound"

\* nav_relation({ _id, relation, label, withScores: true }): the members whose
\* label is the one asked for, with their scores.
navRelation(rs, id, relation, label) ==
    LET all == relationOf(rs, id, relation) IN
    [m \in {x \in DOMAIN all : x[1] = label} |-> all[m]]

(***************************************************************************)
(* Managers: one request per slot, one step per store call                 *)
(***************************************************************************)

MaxRequests == 3

Slots == {1, 2}

SuperAdminId == "super@mail.com"
SchoolAdminId == "admin@mail.com"
TeacherId == "teacher@mail.com"
Callers == {SchoolAdminId, TeacherId}

SchoolIds == {"sc1"}

\* The ids nanoid() returns, in the order it returns them.
IdPool == <<"s1", "s2", "s3", "s4", "s5", "s6">>
GeneratedIds == {IdPool[i] : i \in 1..nextId}

\* The classrooms of the starting store, and the classroom ids a request can
\* name: those and the ids createClassroom has stored a classroom under,
\* whether or not the classroom is still stored.
InitClassroomIds == {"c1", "c2"}
ClassroomIds == InitClassroomIds \cup created

\* The category a role stands for.
categoryOf(role) ==
    CASE role = "superadmin"  -> "superAdmin"
      [] role = "schoolAdmin" -> "admin"
      [] role = "user"        -> "anyone"
      [] OTHER                -> "stranger"

\* UserManager._setPermissions: the items of a role, in the order in which
\* addDirectAccess is awaited for them.
permissionItems(role) ==
    CASE role = "schoolAdmin" ->
            << <<SchoolLayer, "read">>,
               <<ClassLayer, "update">>,
               <<StudentLayer, "update">> >>
      [] role = "superadmin" ->
            << <<SchoolLayer, "update">>,
               <<ClassLayer, "config">>,
               <<StudentLayer, "config">>,
               <<(<<"board", "user">>), "config">> >>
      [] OTHER -> <<>>

\* UserManager._setPermissions: the direct grants a role is given.
rolePermissions(userId, role) ==
    {<<userId, permissionItems(role)[i][1], permissionItems(role)[i][2]>> :
        i \in DOMAIN permissionItems(role)}

\* shark.isGranted that lets a school admin do every action at board.school.
sharkIsGranted_adminAllAtSchool(role, action, layer) ==
    IF role = "superadmin" THEN TRUE
    ELSE IF role = "schoolAdmin"
    THEN \/ layer = SchoolLayer
         \/ /\ action \in ActionNames
            /\ actions[action] <= actions["update"]
            /\ layer \in {ClassLayer, StudentLayer}
    ELSE FALSE

\* shark.isGranted({ layer, action, userId, nodeId, role }) as the managers are
\* run with it: the role passed in decides, with the action and the layer.
sharkIsGranted(role, action, layer) ==
    IF role = "superadmin" THEN TRUE
    ELSE IF role = "schoolAdmin"
    THEN \/ layer = SchoolLayer /\ action \in {"read", "update"}
         \/ /\ action \in ActionNames
            /\ actions[action] <= actions["update"]
            /\ layer \in {ClassLayer, StudentLayer}
    ELSE FALSE

\* _validatePermission({ userId, action, nodeId }): the error it returns, or "".
validatePermission(userId, action, nodeId) ==
    LET user == getBlock(blocks, <<"user", userId>>) IN
    IF isEmptyObject(user) THEN "Invalid Token"
    ELSE IF user.role = Null THEN "User role not found"
    ELSE IF sharkIsGranted(user.role, action, nodeId) THEN ""
    ELSE "Permission denied"

Idle == [op |-> "idle", pc |-> "idle", caller |-> "", cid |-> "", sid |-> "",
         schoolId |-> "", oldCid |-> "", pend |-> {}, uid |-> "", role |-> "",
         callerRole |-> "", students |-> <<>>, found |-> <<>>,
         resource |-> "", resources |-> <<>>, item |-> 0]
NoResp == [op |-> "none", caller |-> "", cid |-> "", sid |-> "", message |-> "",
           schoolId |-> "", uid |-> "", role |-> "", callerRole |-> "",
           students |-> <<>>]

userBlock(role) == [label |-> "user", role |-> role]
schoolBlock == [label |-> "school"]
\* createClassroom stores resources || [] with the school id.
classroomBlock(schoolId, resources) ==
    [label |-> "classroom", schoolId |-> schoolId, resources |-> resources]
studentBlock(schoolId, classroomId) ==
    [label |-> "student", schoolId |-> schoolId, classroomId |-> classroomId]

\* The store after createUser for a superadmin, a school admin and a teacher,
\* createSchool for sc1 by the superadmin, createClassroom for c1 with the
\* resources Projector and Whiteboard and createClassroom for c2 without
\* resources.
Init ==
    /\ tree = layers
    /\ grants = rolePermissions(SuperAdminId, "superadmin")
                \cup rolePermissions(SchoolAdminId, "schoolAdmin")
                \cup rolePermissions(TeacherId, "user")
    /\ call = NoCall
    /\ blocks = (<<"user", SuperAdminId>> :> userBlock("superadmin"))
             @@ (<<"user", SchoolAdminId>> :> userBlock("schoolAdmin"))
             @@ (<<"user", TeacherId>> :> userBlock("user"))
             @@ (<<"school", "sc1">> :> schoolBlock)
             @@ (<<"classroom", "c1">> :> classroomBlock("sc1", <<"Projector", "Whiteboard">>))
             @@ (<<"classroom", "c2">> :> classroomBlock("sc1", <<>>))
    /\ rels = (<<(<<"school", "sc1">>), "_members">> :>
                  ((<<"classroom", "c1">> :> 1) @@ (<<"classroom", "c2">> :> 1)))
    /\ req = [s \in Slots |-> Idle]
    /\ resp = NoResp
    /\ nextId = 0
    /\ started = 0
    /\ created = {}
    /\ cache = <<>>
    /\ mw = <<>>
    /\ passed = <<>>

\* The student ids a caller can name. createStudent returns the id it drew in
\* its response; before that, and only after add_block has been answered and
\* both update_relations issued, the id can be read from listSchoolStudents once
\* the school's _members holds it, and from listClassroomStudents once the
\* classroom's does: listClassroomStudents reads the classroom block first
\* and the members later, so that the classroom need not be stored any more
\* when the members are read.
Listed(r) ==
    /\ r.pc = "relations"
    /\ \/ "school" \notin r.pend
       \/ /\ "classroom" \notin r.pend
          /\ r.cid \in ClassroomIds

KnownIds ==
    {id \in GeneratedIds :
        \A s \in Slots : (req[s].op = "createStudent" /\ req[s].sid = id) => Listed(req[s])}

\* The slot a new request takes.
FreeSlot(s) == req[s].op = "idle" /\ \A t \in Slots : t < s => req[t].op # "idle"

\* A request arrives.
Begin(s, op, pc, caller, cid, sid, schoolId) ==
    /\ started < MaxRequests
    /\ FreeSlot(s)
    /\ started' = started + 1
    /\ req' = [req EXCEPT ![s] = [Idle EXCEPT !.op = op, !.pc = pc, !.caller = caller,
                                              !.cid = cid, !.sid = sid, !.schoolId = schoolId]]
    /\ resp' = NoResp
    /\ UNCHANGED <<blocks, rels, nextId>>
    /\ UNCHANGED <<authVars, rateVars, created>>

\* The request of slot s ends with this response.
Respond(s, message) ==
    /\ resp' = [op |-> req[s].op, caller |-> req[s].caller, cid |-> req[s].cid,
                sid |-> req[s].sid, message |-> message,
                schoolId |-> req[s].schoolId, uid |-> req[s].uid, role |-> req[s].role,
                callerRole |-> req[s].callerRole, students |-> <<>>]
    /\ req' = [req EXCEPT ![s] = Idle]

\* The request of slot s goes on with the next step.
Goto(s, pc) ==
    /\ req' = [req EXCEPT ![s].pc = pc]
    /\ resp' = NoResp

At(s, op, pc) == req[s].op = op /\ req[s].pc = pc

(* ClassroomManager.addStudent *)

AddStudentBegin ==
    \E s \in Slots, caller \in Callers, cid \in ClassroomIds, sid \in KnownIds :
        Begin(s, "addStudent", "getClassroom", caller, cid, sid, "")

\* get_block classroom; 404 when it is not stored.
AddStudentGetClassroom ==
    \E s \in Slots :
        /\ At(s, "addStudent", "getClassroom")
        /\ LET classroom == getBlock(blocks, <<"classroom", req[s].cid>>) IN
           IF isEmptyObject(classroom)
           THEN Respond(s, "Classroom not found")
           ELSE /\ req' = [req EXCEPT ![s].pc = "permission", ![s].schoolId = classroom.schoolId]
                /\ resp' = NoResp
        /\ UNCHANGED <<blocks, rels, nextId, started>>
        /\ UNCHANGED <<authVars, rateVars, created>>

\* _validatePermission update at board.school.class; 403 on an error.
AddStudentPermission ==
    \E s \in Slots :
        /\ At(s, "addStudent", "permission")
        /\ LET error == validatePermission(req[s].caller, "update", ClassLayer) IN
           IF error # "" THEN Respond(s, error) ELSE Goto(s, "getStudent")
        /\ UNCHANGED <<blocks, rels, nextId, started>>
        /\ UNCHANGED <<authVars, rateVars, created>>

\* get_block student; 404 when it is not stored, 400 when it is of another
\* school or its classroomId is set.
AddStudentGetStudent ==
    \E s \in Slots :
        /\ At(s, "addStudent", "getStudent")
        /\ LET student == getBlock(blocks, <<"student", req[s].sid>>) IN
           IF isEmptyObject(student) THEN Respond(s, "Student not found")
           ELSE IF student.schoolId # req[s].schoolId
           THEN Respond(s, "Cannot add student from a different school")
           ELSE IF student.classroomId # Null
           THEN Respond(s, "Student is already assigned to a classroom")
           ELSE Goto(s, "updateBlock")
        /\ UNCHANGED <<blocks, rels, nextId, started>>
        /\ UNCHANGED <<authVars, rateVars, created>>

\* addStudent with an update_block that replaces the stored block.
AddStudentUpdateBlock_replace ==
    \E s \in Slots :
        /\ At(s, "addStudent", "updateBlock")
        /\ blocks' = (<<"student", req[s].sid>> :> [classroomId |-> req[s].cid]) @@ blocks
        /\ Goto(s, "updateRelations")
        /\ UNCHANGED <<rels, nextId, started>>
        /\ UNCHANGED <<authVars, rateVars, created>>

\* update_block student: classroomId = id.
AddStudentUpdateBlock ==
    \E s \in Slots :
        /\ At(s, "addStudent", "updateBlock")
        /\ blocks' = updateBlock(blocks, <<"student", req[s].sid>>,
                                 [classroomId |-> req[s].cid])
        /\ Goto(s, "updateRelations")
        /\ UNCHANGED <<rels, nextId, started>>
        /\ UNCHANGED <<authVars, rateVars, created>>

\* update_relations classroom: add _members student~1.
AddStudentUpdateRelations ==
    \E s \in Slots :
        /\ At(s, "addStudent", "updateRelations")
        /\ rels' = relationsAdd(rels, <<"classroom", req[s].cid>>, "_members",
                                <<"student", req[s].sid>>, 1)
        /\ Respond(s, "Student added to classroom successfully")
        /\ UNCHANGED <<blocks, nextId, started>>
        /\ UNCHANGED <<authVars, rateVars, created>>

(* ClassroomManager.removeStudent *)

RemoveStudentBegin ==
    \E s \in Slots, caller \in Callers, cid \in ClassroomIds, sid \in KnownIds :
        Begin(s, "removeStudent", "getClassroom", caller, cid, sid, "")

RemoveStudentGetClassroom ==
    \E s \in Slots :
        /\ At(s, "removeStudent", "getClassroom")
        /\ IF isEmptyObject(getBlock(blocks, <<"classroom", req[s].cid>>))
           THEN Respond(s, "Classroom not found")
           ELSE Goto(s, "permission")
        /\ UNCHANGED <<blocks, rels, nextId, started>>
        /\ UNCHANGED <<authVars, rateVars, created>>

RemoveStudentPermission ==
    \E s \in Slots :
        /\ At(s, "removeStudent", "permission")
        /\ LET error == validatePermission(req[s].caller, "update", ClassLayer) IN
           IF error # "" THEN Respond(s, error) ELSE Goto(s, "getStudent")
        /\ UNCHANGED <<blocks, rels, nextId, started>>
        /\ UNCHANGED <<authVars, rateVars, created>>

\* get_block student; 404 when it is not stored, 400 when its classroomId is
\* not this classroom.
RemoveStudentGetStudent ==
    \E s \in Slots :
        /\ At(s, "removeStudent", "getStudent")
        /\ LET student == getBlock(blocks, <<"student", req[s].sid>>) IN
           IF isEmptyObject(student) THEN Respond(s, "Student not found")
           ELSE IF student.classroomId # req[s].cid
           THEN Respond(s, "Student is not in this classroom")
           ELSE Goto(s, "updateBlock")
        /\ UNCHANGED <<blocks, rels, nextId, started>>
        /\ UNCHANGED <<authVars, rateVars, created>>

\* update_block student: classroomId = null.
RemoveStudentUpdateBlock ==
    \E s \in Slots :
        /\ At(s, "removeStudent", "updateBlock")
        /\ blocks' = updateBlock(blocks, <<"student", req[s].sid>>, [classroomId |-> Null])
        /\ Goto(s, "updateRelations")
        /\ UNCHANGED <<rels, nextId, started>>
        /\ UNCHANGED <<authVars, rateVars, created>>

\* removeStudent with an update_relations that empties the relation.
RemoveStudentUpdateRelations_clears ==
    \E s \in Slots :
        /\ At(s, "removeStudent", "updateRelations")
        /\ rels' = (<<(<<"classroom", req[s].cid>>), "_members">> :> NoMembers) @@ rels
        /\ Respond(s, "Student removed from classroom successfully")
        /\ UNCHANGED <<blocks, nextId, started>>
        /\ UNCHANGED <<authVars, rateVars, created>>

\* update_relations classroom: remove _members student.
RemoveStudentUpdateRelations ==
    \E s \in Slots :
        /\ At(s, "removeStudent", "updateRelations")
        /\ rels' = relationsRemove(rels, <<"classroom", req[s].cid>>, "_members",
                                   <<"student", req[s].sid>>)
        /\ Respond(s, "Student removed from classroom successfully")
        /\ UNCHANGED <<blocks, nextId, started>>
        /\ UNCHANGED <<authVars, rateVars, created>>

(* ClassroomManager.deleteClassroom *)

DeleteClassroomBegin ==
    /\ started < MaxRequests
    /\ \E s \in Slots, caller \in Callers, cid \in ClassroomIds :
        Begin(s, "deleteClassroom", "getClassroom", caller, cid, "", "")

DeleteClassroomGetClassroom ==
    \E s \in Slots :
        /\ At(s, "deleteClassroom", "getClassroom")
        /\ LET classroom == getBlock(blocks, <<"classroom", req[s].cid>>) IN
           IF isEmptyObject(classroom)
           THEN Respond(s, "Classroom not found")
           ELSE /\ req' = [req EXCEPT ![s].pc = "permission", ![s].schoolId = classroom.schoolId]
                /\ resp' = NoResp
        /\ UNCHANGED <<blocks, rels, nextId, started>>
        /\ UNCHANGED <<authVars, rateVars, created>>

DeleteClassroomPermission ==
    \E s \in Slots :
        /\ At(s, "deleteClassroom", "permission")
        /\ LET error == validatePermission(req[s].caller, "delete", ClassLayer) IN
           IF error # "" THEN Respond(s, error) ELSE Goto(s, "navRelation")
        /\ UNCHANGED <<blocks, rels, nextId, started>>
        /\ UNCHANGED <<authVars, rateVars, created>>

\* deleteClassroom without the members check.
DeleteClassroomNavRelation_unchecked ==
    \E s \in Slots :
        /\ At(s, "deleteClassroom", "navRelation")
        /\ Goto(s, "deleteBlock")
        /\ UNCHANGED <<blocks, rels, nextId, started>>
        /\ UNCHANGED <<authVars, rateVars, created>>

\* nav_relation classroom _members, label student: an error when it has members.
DeleteClassroomNavRelation ==
    \E s \in Slots :
        /\ At(s, "deleteClassroom", "navRelation")
        /\ LET students == navRelation(rels, <<"classroom", req[s].cid>>, "_members", "student") IN
           IF DOMAIN students # {}
           THEN Respond(s, "Cannot delete classroom with existing students")
           ELSE Goto(s, "deleteBlock")
        /\ UNCHANGED <<blocks, rels, nextId, started>>
        /\ UNCHANGED <<authVars, rateVars, created>>

\* delete_block classroom.
DeleteClassroomDeleteBlock ==
    \E s \in Slots :
        /\ At(s, "deleteClassroom", "deleteBlock")
        /\ blocks' = deleteBlock(blocks, <<"classroom", req[s].cid>>)
        /\ Goto(s, "updateRelations")
        /\ UNCHANGED <<rels, nextId, started>>
        /\ UNCHANGED <<authVars, rateVars, created>>

\* update_relations school: remove _members classroom.
DeleteClassroomUpdateRelations ==
    \E s \in Slots :
        /\ At(s, "deleteClassroom", "updateRelations")
        /\ rels' = relationsRemove(rels, <<"school", req[s].schoolId>>, "_members",
                                   <<"classroom", req[s].cid>>)
        /\ Respond(s, "Classroom deleted successfully")
        /\ UNCHANGED <<blocks, nextId, started>>
        /\ UNCHANGED <<authVars, rateVars, created>>

(* StudentManager.createStudent *)

CreateStudentBegin ==
    /\ started < MaxRequests
    /\ \E s \in Slots, caller \in Callers, schoolId \in SchoolIds,
          cid \in ClassroomIds \cup {Null} :
        Begin(s, "createStudent", "permission", caller, cid, "", schoolId)

\* _validatePermission create at board.school.class.student; the error is
\* returned. Otherwise studentId = nanoid() is drawn and add_block is issued
\* under it.
CreateStudentPermission ==
    \E s \in Slots :
        /\ At(s, "createStudent", "permission")
        /\ LET error == validatePermission(req[s].caller, "create", StudentLayer) IN
           IF error # ""
           THEN /\ Respond(s, error)
                /\ nextId' = nextId
           ELSE /\ nextId < Len(IdPool)
                /\ LET studentId == IdPool[nextId + 1] IN
                   req' = [req EXCEPT ![s].pc = "addBlock", ![s].sid = studentId]
                /\ nextId' = nextId + 1
                /\ resp' = NoResp
        /\ UNCHANGED <<blocks, rels, started>>
        /\ UNCHANGED <<authVars, rateVars, created>>

\* add_block student is answered: the student is stored under the id the
\* request drew; then both update_relations are issued.
CreateStudentAddBlock ==
    \E s \in Slots :
        /\ At(s, "createStudent", "addBlock")
        /\ LET studentId == req[s].sid IN
           blocks' = addBlock(blocks, <<"student", studentId>>,
                              studentBlock(req[s].schoolId, req[s].cid))
        /\ req' = [req EXCEPT ![s].pc = "relations",
                              ![s].pend = {"classroom", "school"}]
        /\ resp' = NoResp
        /\ UNCHANGED <<rels, nextId, started>>
        /\ UNCHANGED <<authVars, rateVars, created>>

\* Promise.all: update_relations classroom add student~1, update_relations
\* school add student~1, completing in either order.
CreateStudentRelations ==
    \E s \in Slots :
        /\ At(s, "createStudent", "relations")
        /\ \E which \in req[s].pend :
            /\ rels' = IF which = "classroom"
                       THEN relationsAdd(rels, <<"classroom", req[s].cid>>, "_members",
                                         <<"student", req[s].sid>>, 1)
                       ELSE relationsAdd(rels, <<"school", req[s].schoolId>>, "_members",
                                         <<"student", req[s].sid>>, 1)
            /\ IF req[s].pend = {which}
               THEN Respond(s, "{ student }")
               ELSE /\ req' = [req EXCEPT ![s].pend = @ \ {which}]
                    /\ resp' = NoResp
        /\ UNCHANGED <<blocks, nextId, started>>
        /\ UNCHANGED <<authVars, rateVars, created>>

(* StudentManager.deleteStudent *)

DeleteStudentBegin ==
    \E s \in Slots, caller \in Callers, sid \in KnownIds :
        Begin(s, "deleteStudent", "getStudent", caller, "", sid, "")

\* get_block student; 404 when it is not stored.
DeleteStudentGetStudent ==
    \E s \in Slots :
        /\ At(s, "deleteStudent", "getStudent")
        /\ LET student == getBlock(blocks, <<"student", req[s].sid>>) IN
           IF isEmptyObject(student) THEN Respond(s, "Student not found")
           ELSE /\ req' = [req EXCEPT ![s].pc = "permission",
                                      ![s].schoolId = student.schoolId,
                                      ![s].cid = student.classroomId]
                /\ resp' = NoResp
        /\ UNCHANGED <<blocks, rels, nextId, started>>
        /\ UNCHANGED <<authVars, rateVars, created>>

DeleteStudentPermission ==
    \E s \in Slots :
        /\ At(s, "deleteStudent", "permission")
        /\ LET error == validatePermission(req[s].caller, "delete", StudentLayer) IN
           IF error # "" THEN Respond(s, error) ELSE Goto(s, "deleteBlock")
        /\ UNCHANGED <<blocks, rels, nextId, started>>
        /\ UNCHANGED <<authVars, rateVars, created>>

\* delete_block student; then both update_relations are issued.
DeleteStudentDeleteBlock ==
    \E s \in Slots :
        /\ At(s, "deleteStudent", "deleteBlock")
        /\ blocks' = deleteBlock(blocks, <<"student", req[s].sid>>)
        /\ req' = [req EXCEPT ![s].pc = "relations", ![s].pend = {"classroom", "school"}]
        /\ resp' = NoResp
        /\ UNCHANGED <<rels, nextId, started>>
        /\ UNCHANGED <<authVars, rateVars, created>>

\* Promise.all: update_relations classroom remove student, update_relations
\* school remove student, completing in either order.
DeleteStudentRelations ==
    \E s \in Slots :
        /\ At(s, "deleteStudent", "relations")
        /\ \E which \in req[s].pend :
            /\ rels' = IF which = "classroom"
                       THEN relationsRemove(rels, <<"classroom", req[s].cid>>, "_members",
                                            <<"student", req[s].sid>>)
                       ELSE relationsRemove(rels, <<"school", req[s].schoolId>>, "_members",
                                            <<"student", req[s].sid>>)
            /\ IF req[s].pend = {which}
               THEN Respond(s, "Student deleted successfully")
               ELSE /\ req' = [req EXCEPT ![s].pend = @ \ {which}]
                    /\ resp' = NoResp
        /\ UNCHANGED <<blocks, nextId, started>>
        /\ UNCHANGED <<authVars, rateVars, created>>

(* StudentManager.transferStudent *)

TransferStudentBegin ==
    \E s \in Slots, caller \in Callers, sid \in KnownIds, cid \in ClassroomIds :
        Begin(s, "transferStudent", "getStudent", caller, cid, sid, "")

\* get_block student; 404 when it is not stored.
TransferStudentGetStudent ==
    \E s \in Slots :
        /\ At(s, "transferStudent", "getStudent")
        /\ LET student == getBlock(blocks, <<"student", req[s].sid>>) IN
           IF isEmptyObject(student) THEN Respond(s, "Student not found")
           ELSE /\ req' = [req EXCEPT ![s].pc = "permission",
                                      ![s].schoolId = student.schoolId,
                                      ![s].oldCid = student.classroomId]
                /\ resp' = NoResp
        /\ UNCHANGED <<blocks, rels, nextId, started>>
        /\ UNCHANGED <<authVars, rateVars, created>>

TransferStudentPermission ==
    \E s \in Slots :
        /\ At(s, "transferStudent", "permission")
        /\ LET error == validatePermission(req[s].caller, "update", StudentLayer) IN
           IF error # "" THEN Respond(s, error) ELSE Goto(s, "getClassroom")
        /\ UNCHANGED <<blocks, rels, nextId, started>>
        /\ UNCHANGED <<authVars, rateVars, created>>

\* get_block new classroom; 404 when it is not stored, 400 when it is of
\* another school than the student.
TransferStudentGetClassroom ==
    \E s \in Slots :
        /\ At(s, "transferStudent", "getClassroom")
        /\ LET newClassroom == getBlock(blocks, <<"classroom", req[s].cid>>) IN
           IF isEmptyObject(newClassroom) THEN Respond(s, "New classroom not found")
           ELSE IF newClassroom.schoolId # req[s].schoolId
           THEN Respond(s, "Cannot transfer student to a classroom in a different school")
           ELSE Goto(s, "updateBlock")
        /\ UNCHANGED <<blocks, rels, nextId, started>>
        /\ UNCHANGED <<authVars, rateVars, created>>

\* update_block student: classroomId = newClassroomId; then both
\* update_relations are issued.
TransferStudentUpdateBlock ==
    \E s \in Slots :
        /\ At(s, "transferStudent", "updateBlock")
        /\ blocks' = updateBlock(blocks, <<"student", req[s].sid>>,
                                 [classroomId |-> req[s].cid])
        /\ req' = [req EXCEPT ![s].pc = "relations", ![s].pend = {"remove", "add"}]
        /\ resp' = NoResp
        /\ UNCHANGED <<rels, nextId, started>>
        /\ UNCHANGED <<authVars, rateVars, created>>

\* Promise.all: update_relations old classroom remove student, update_relations
\* new classroom add student~1, completing in either order.
TransferStudentRelations ==
    \E s \in Slots :
        /\ At(s, "transferStudent", "relations")
        /\ \E which \in req[s].pend :
            /\ rels' = IF which = "remove"
                       THEN relationsRemove(rels, <<"classroom", req[s].oldCid>>, "_members",
                                            <<"student", req[s].sid>>)
                       ELSE relationsAdd(rels, <<"classroom", req[s].cid>>, "_members",
                                         <<"student", req[s].sid>>, 1)
            /\ IF req[s].pend = {which}
               THEN Respond(s, "Student transferred successfully")
               ELSE /\ req' = [req EXCEPT ![s].pend = @ \ {which}]
                    /\ resp' = NoResp
        /\ UNCHANGED <<blocks, nextId, started>>
        /\ UNCHANGED <<authVars, rateVars, created>>

Next ==
    \/ AddStudentBegin \/ AddStudentGetClassroom \/ AddStudentPermission
    \/ AddStudentGetStudent \/ AddStudentUpdateBlock \/ AddStudentUpdateRelations
    \/ RemoveStudentBegin \/ RemoveStudentGetClassroom \/ RemoveStudentPermission
    \/ RemoveStudentGetStudent \/ RemoveStudentUpdateBlock \/ RemoveStudentUpdateRelations
    \/ DeleteClassroomBegin \/ DeleteClassroomGetClassroom \/ DeleteClassroomPermission
    \/ DeleteClassroomNavRelation \/ DeleteClassroomDeleteBlock
    \/ DeleteClassroomUpdateRelations
    \/ CreateStudentBegin \/ CreateStudentPermission \/ CreateStudentAddBlock
    \/ CreateStudentRelations
    \/ DeleteStudentBegin \/ DeleteStudentGetStudent \/ DeleteStudentPermission
    \/ DeleteStudentDeleteBlock \/ DeleteStudentRelations
    \/ TransferStudentBegin \/ TransferStudentGetStudent \/ TransferStudentPermission
    \/ TransferStudentGetClassroom \/ TransferStudentUpdateBlock
    \/ TransferStudentRelations

Spec == Init /\ [][Next]_vars

(* StudentManager.listSchoolStudents *)

ListSchoolStudentsBegin ==
    /\ started < MaxRequests
    /\ \E s \in Slots, caller \in Callers, schoolId \in SchoolIds :
        Begin(s, "listSchoolStudents", "permission", caller, "", "", schoolId)

\* _validatePermission read at board.school.class.student; 403 on an error.
ListSchoolStudentsPermission ==
    \E s \in Slots :
        /\ At(s, "listSchoolStudents", "permission")
        /\ LET error == validatePermission(req[s].caller, "read", StudentLayer) IN
           IF error # "" THEN Respond(s, error) ELSE Goto(s, "navRelation")
        /\ UNCHANGED <<blocks, rels, nextId, started>>
        /\ UNCHANGED <<authVars, rateVars, created>>

\* What listSchoolStudents returns: { students: studentDetails.filter((s) => s !== null) };
\* get_block answers a miss with the empty object, which the filter keeps.
studentDetails(found) == found

\* nav_relation school _members, label student, withScores: the ids to fetch;
\* Promise.all of no get_block answers at once.
ListSchoolStudentsNavRelation ==
    \E s \in Slots :
        /\ At(s, "listSchoolStudents", "navRelation")
        /\ LET students == navRelation(rels, <<"school", req[s].schoolId>>, "_members", "student") IN
           IF DOMAIN students = {}
           THEN /\ resp' = [NoResp EXCEPT !.op = "listSchoolStudents", !.caller = req[s].caller,
                                          !.schoolId = req[s].schoolId,
                                          !.message = "{ students }"]
                /\ req' = [req EXCEPT ![s] = Idle]
           ELSE /\ req' = [req EXCEPT ![s].pc = "getBlock", ![s].students = students,
                                      ![s].pend = DOMAIN students]
                /\ resp' = NoResp
        /\ UNCHANGED <<blocks, rels, nextId, started>>
        /\ UNCHANGED <<authVars, rateVars, created>>

\* Promise.all: get_block of each id, completing in any order; with the last
\* one the list is returned.
ListSchoolStudentsGetBlock ==
    \E s \in Slots :
        /\ At(s, "listSchoolStudents", "getBlock")
        /\ \E id \in req[s].pend :
            LET found == (id :> getBlock(blocks, id)) @@ req[s].found IN
            IF req[s].pend = {id}
            THEN /\ resp' = [NoResp EXCEPT !.op = "listSchoolStudents", !.caller = req[s].caller,
                                           !.schoolId = req[s].schoolId,
                                           !.message = "{ students }",
                                           !.students = studentDetails(found)]
                 /\ req' = [req EXCEPT ![s] = Idle]
            ELSE /\ req' = [req EXCEPT ![s].pend = @ \ {id}, ![s].found = found]
                 /\ resp' = NoResp
        /\ UNCHANGED <<blocks, rels, nextId, started>>
        /\ UNCHANGED <<authVars, rateVars, created>>

\* The store of Init after assignSchoolAdmin of the school admin to sc1: the
\* school's _members holds the classrooms and the admin user.
InitList ==
    /\ tree = layers
    /\ grants = rolePermissions(SuperAdminId, "superadmin")
                \cup rolePermissions(SchoolAdminId, "schoolAdmin")
                \cup rolePermissions(TeacherId, "user")
    /\ call = NoCall
    /\ blocks = (<<"user", SuperAdminId>> :> userBlock("superadmin"))
             @@ (<<"user", SchoolAdminId>> :> userBlock("schoolAdmin"))
             @@ (<<"user", TeacherId>> :> userBlock("user"))
             @@ (<<"school", "sc1">> :> schoolBlock)
             @@ (<<"classroom", "c1">> :> classroomBlock("sc1", <<"Projector", "Whiteboard">>))
             @@ (<<"classroom", "c2">> :> classroomBlock("sc1", <<>>))
    /\ rels = (<<(<<"school", "sc1">>), "_members">> :>
                  ((<<"classroom", "c1">> :> 1) @@ (<<"classroom", "c2">> :> 1)
                     @@ (<<"user", SchoolAdminId>> :> 1)))
    /\ req = [s \in Slots |-> Idle]
    /\ resp = NoResp
    /\ nextId = 0
    /\ started = 0
    /\ created = {}
    /\ cache = <<>>
    /\ mw = <<>>
    /\ passed = <<>>

NextList ==
    \/ ListSchoolStudentsBegin \/ ListSchoolStudentsPermission
    \/ ListSchoolStudentsNavRelation \/ ListSchoolStudentsGetBlock
    \/ CreateStudentBegin \/ CreateStudentPermission \/ CreateStudentAddBlock
    \/ CreateStudentRelations
    \/ DeleteStudentBegin \/ DeleteStudentGetStudent \/ DeleteStudentPermission
    \/ DeleteStudentDeleteBlock \/ DeleteStudentRelations
    \/ DeleteClassroomBegin \/ DeleteClassroomGetClassroom \/ DeleteClassroomPermission
    \/ DeleteClassroomNavRelation \/ DeleteClassroomDeleteBlock
    \/ DeleteClassroomUpdateRelations

SpecList == InitList /\ [][NextList]_vars

(* A request that stops between its store calls *)

\* createStudent that, when it stops, first applies the update_relations still
\* outstanding.
CreateStudentCrash_completes ==
    \E s \in Slots :
        /\ At(s, "createStudent", "relations")
        /\ req[s].pend # {}
        /\ rels' = relationsAdd(rels, <<"school", req[s].schoolId>>, "_members",
                                <<"student", req[s].sid>>, 1)
        /\ req' = [req EXCEPT ![s] = Idle]
        /\ resp' = NoResp
        /\ UNCHANGED <<blocks, nextId, started>>
        /\ UNCHANGED <<authVars, rateVars, created>>

\* The process stops while createStudent waits in its Promise.all, with both
\* update_relations outstanding or with either one answered: the request is
\* gone, no response is sent and the store keeps what was written.
CreateStudentCrash ==
    \E s \in Slots :
        /\ At(s, "createStudent", "relations")
        /\ req[s].pend # {}
        /\ req' = [req EXCEPT ![s] = Idle]
        /\ resp' = NoResp
        /\ UNCHANGED <<blocks, rels, nextId, started>>
        /\ UNCHANGED <<authVars, rateVars, created>>

\* The requests that create and delete a student, and the stop.
NextCrash ==
    \/ CreateStudentBegin \/ CreateStudentPermission \/ CreateStudentAddBlock
    \/ CreateStudentRelations \/ CreateStudentCrash
    \/ DeleteStudentBegin \/ DeleteStudentGetStudent \/ DeleteStudentPermission
    \/ DeleteStudentDeleteBlock \/ DeleteStudentRelations

SpecCrash == Init /\ [][NextCrash]_vars

(***************************************************************************)
(* ClassroomManager.addResource and removeResource                         *)
(***************************************************************************)

Resources == {"Projector", "Whiteboard"}

\* The resources array of a classroom block as addResource reads it: the
\* stored array, or [] when the attribute is not an array.
resourcesOf(classroom) ==
    IF "resources" \in DOMAIN classroom THEN classroom.resources ELSE <<>>

includes(resources, resource) ==
    \E i \in 1..Len(resources) : resources[i] = resource

\* resources.push(resource)
push(resources, resource) == Append(resources, resource)

\* resources.splice(resources.indexOf(resource), 1)
splice(resources, resource) ==
    LET resourceIndex == CHOOSE i \in 1..Len(resources) :
                            /\ resources[i] = resource
                            /\ \A j \in 1..(i - 1) : resources[j] # resource IN
    SubSeq(resources, 1, resourceIndex - 1)
        \o SubSeq(resources, resourceIndex + 1, Len(resources))

AddResourceBegin ==
    /\ started < MaxRequests
    /\ \E s \in Slots, caller \in Callers, cid \in ClassroomIds, resource \in Resources :
        /\ FreeSlot(s)
        /\ started' = started + 1
        /\ req' = [req EXCEPT ![s] = [Idle EXCEPT !.op = "addResource",
                                                  !.pc = "getClassroom",
                                                  !.caller = caller, !.cid = cid,
                                                  !.resource = resource]]
        /\ resp' = NoResp
        /\ UNCHANGED <<blocks, rels, nextId>>
        /\ UNCHANGED <<authVars, rateVars, created>>

\* get_block classroom; 404 when it is not stored. The handler keeps the block
\* it read, resources included.
AddResourceGetClassroom ==
    \E s \in Slots :
        /\ At(s, "addResource", "getClassroom")
        /\ LET classroom == getBlock(blocks, <<"classroom", req[s].cid>>) IN
           IF isEmptyObject(classroom)
           THEN Respond(s, "Classroom not found")
           ELSE /\ req' = [req EXCEPT ![s].pc = "permission",
                                      ![s].resources = resourcesOf(classroom)]
                /\ resp' = NoResp
        /\ UNCHANGED <<blocks, rels, nextId, started>>
        /\ UNCHANGED <<authVars, rateVars, created>>

\* _validatePermission update; 403 with the error.
AddResourcePermission ==
    \E s \in Slots :
        /\ At(s, "addResource", "permission")
        /\ LET error == validatePermission(req[s].caller, "update", ClassLayer) IN
           IF error # "" THEN Respond(s, error) ELSE Goto(s, "updateBlock")
        /\ UNCHANGED <<blocks, rels, nextId, started>>
        /\ UNCHANGED <<authVars, rateVars, created>>

\* 409 when the block that was read includes the resource; else push onto the
\* array that was read and update_block with the whole array.
AddResourceUpdateBlock ==
    \E s \in Slots :
        /\ At(s, "addResource", "updateBlock")
        /\ IF includes(req[s].resources, req[s].resource)
           THEN /\ Respond(s, "Resource already exists")
                /\ UNCHANGED blocks
           ELSE /\ blocks' = updateBlock(blocks, <<"classroom", req[s].cid>>,
                                         [resources |-> push(req[s].resources,
                                                             req[s].resource)])
                /\ Respond(s, "{ classroom }")
        /\ UNCHANGED <<rels, nextId, started>>
        /\ UNCHANGED <<authVars, rateVars, created>>

RemoveResourceBegin ==
    /\ started < MaxRequests
    /\ \E s \in Slots, caller \in Callers, cid \in ClassroomIds, resource \in Resources :
        /\ FreeSlot(s)
        /\ started' = started + 1
        /\ req' = [req EXCEPT ![s] = [Idle EXCEPT !.op = "removeResource",
                                                  !.pc = "getClassroom",
                                                  !.caller = caller, !.cid = cid,
                                                  !.resource = resource]]
        /\ resp' = NoResp
        /\ UNCHANGED <<blocks, rels, nextId>>
        /\ UNCHANGED <<authVars, rateVars, created>>

\* get_block classroom; 404 when it is not stored.
RemoveResourceGetClassroom ==
    \E s \in Slots :
        /\ At(s, "removeResource", "getClassroom")
        /\ LET classroom == getBlock(blocks, <<"classroom", req[s].cid>>) IN
           IF isEmptyObject(classroom)
           THEN Respond(s, "Classroom not found")
           ELSE /\ req' = [req EXCEPT ![s].pc = "permission",
                                      ![s].resources = resourcesOf(classroom)]
                /\ resp' = NoResp
        /\ UNCHANGED <<blocks, rels, nextId, started>>
        /\ UNCHANGED <<authVars, rateVars, created>>

\* _validatePermission update; 403 with the error.
RemoveResourcePermission ==
    \E s \in Slots :
        /\ At(s, "removeResource", "permission")
        /\ LET error == validatePermission(req[s].caller, "update", ClassLayer) IN
           IF error # "" THEN Respond(s, error) ELSE Goto(s, "updateBlock")
        /\ UNCHANGED <<blocks, rels, nextId, started>>
        /\ UNCHANGED <<authVars, rateVars, created>>

\* 404 when the block that was read does not hold the resource; else splice it
\* out of the array that was read and update_block with the whole array.
RemoveResourceUpdateBlock ==
    \E s \in Slots :
        /\ At(s, "removeResource", "updateBlock")
        /\ IF ~includes(req[s].resources, req[s].resource)
           THEN /\ Respond(s, "Resource not found")
                /\ UNCHANGED blocks
           ELSE /\ blocks' = updateBlock(blocks, <<"classroom", req[s].cid>>,
                                         [resources |-> splice(req[s].resources,
                                                               req[s].resource)])
                /\ Respond(s, "{ classroom }")
        /\ UNCHANGED <<rels, nextId, started>>
        /\ UNCHANGED <<authVars, rateVars, created>>

NextRes ==
    \/ AddResourceBegin
    \/ AddResourceGetClassroom
    \/ AddResourcePermission
    \/ AddResourceUpdateBlock
    \/ RemoveResourceBegin
    \/ RemoveResourceGetClassroom
    \/ RemoveResourcePermission
    \/ RemoveResourceUpdateBlock

SpecRes == Init /\ [][NextRes]_vars

(***************************************************************************)
(* School, user and permission managers                                    *)
(***************************************************************************)

NewUserId == "new@mail.com"
AdminCallers == {SuperAdminId, SchoolAdminId, TeacherId}
SchoolCallers == {SuperAdminId, SchoolAdminId}
UserCallers == {SuperAdminId, TeacherId}
AdminSchoolIds == {"sc1", "sc2"}
RoleInputs == {"schoolAdmin", "superadmin"}

\* The role stored for a user, or Null.
storedRole(bs, userId) ==
    LET user == getBlock(bs, <<"user", userId>>) IN
    IF isEmptyObject(user) THEN Null ELSE user.role

\* SchoolManager._validatePermission({ userId, action, schoolId }): the error
\* it returns, or "". A school admin asking about one school must be among the
\* user members of that school. The requests that use it in one step pass no
\* school id, so that it reads the user block only; getSchool, which passes
\* one, takes the two reads in two steps (GetSchoolPermission,
\* GetSchoolNavRelation).
schoolValidatePermission(userId, action, schoolId) ==
    LET user == getBlock(blocks, <<"user", userId>>) IN
    IF isEmptyObject(user) THEN "Invalid Token"
    ELSE IF user.role = Null THEN "User role not found"
    ELSE IF /\ user.role = "schoolAdmin"
            /\ schoolId # Null
            /\ <<"user", userId>> \notin
                  DOMAIN navRelation(rels, <<"school", schoolId>>, "_members", "user")
    THEN "Permission denied"
    ELSE IF sharkIsGranted(user.role, action, SchoolLayer) THEN ""
    ELSE "Permission denied"

\* The store after createUser for a superadmin, a school admin and a teacher,
\* assignRole for the latter two, and createSchool for sc1 and sc2.
InitAdmin ==
    /\ tree = layers
    /\ grants = rolePermissions(SuperAdminId, "superadmin")
                \cup rolePermissions(SchoolAdminId, "schoolAdmin")
                \cup rolePermissions(TeacherId, "user")
    /\ call = NoCall
    /\ blocks = (<<"user", SuperAdminId>> :> userBlock("superadmin"))
             @@ (<<"user", SchoolAdminId>> :> userBlock("schoolAdmin"))
             @@ (<<"user", TeacherId>> :> userBlock("user"))
             @@ (<<"school", "sc1">> :> schoolBlock)
             @@ (<<"school", "sc2">> :> schoolBlock)
    /\ rels = (<<(<<"user", SchoolAdminId>>), "_roles">> :> (<<"role", "schoolAdmin">> :> 1))
            @@ (<<(<<"user", TeacherId>>), "_roles">> :> (<<"role", "user">> :> 1))
    /\ req = [s \in Slots |-> Idle]
    /\ resp = NoResp
    /\ nextId = 0
    /\ started = 0
    /\ created = {}
    /\ cache = <<>>
    /\ mw = <<>>
    /\ passed = <<>>

\* A request arrives at the school, user or permission manager.
BeginAdmin(s, op, pc, caller, schoolId, uid, role) ==
    /\ started < MaxRequests
    /\ FreeSlot(s)
    /\ started' = started + 1
    /\ req' = [req EXCEPT ![s] = [Idle EXCEPT !.op = op, !.pc = pc, !.caller = caller,
                                              !.schoolId = schoolId, !.uid = uid,
                                              !.role = role]]
    /\ resp' = NoResp
    /\ UNCHANGED <<blocks, rels, nextId>>
    /\ UNCHANGED <<authVars, rateVars, created>>

\* The permission check of a school request: the error ends the request.
SchoolPermission(s, action, schoolId, next) ==
    LET error == schoolValidatePermission(req[s].caller, action, schoolId) IN
    IF error # ""
    THEN /\ resp' = [op |-> req[s].op, caller |-> req[s].caller, cid |-> req[s].cid,
                     sid |-> req[s].sid, message |-> error,
                     schoolId |-> req[s].schoolId, uid |-> req[s].uid,
                     role |-> req[s].role,
                     callerRole |-> storedRole(blocks, req[s].caller),
                     students |-> <<>>]
         /\ req' = [req EXCEPT ![s] = Idle]
    ELSE /\ req' = [req EXCEPT ![s].pc = next,
                               ![s].callerRole = storedRole(blocks, req[s].caller)]
         /\ resp' = NoResp

(* SchoolManager.getSchool *)

GetSchoolBegin ==
    /\ started < MaxRequests
    /\ \E s \in Slots, caller \in AdminCallers, schoolId \in AdminSchoolIds :
        BeginAdmin(s, "getSchool", "permission", caller, schoolId, "", "")

\* _validatePermission read, with the school id: _getUser reads the caller's
\* block. A school admin goes on to the read of the school's members; any other
\* role is decided by isGranted at once.
GetSchoolPermission ==
    \E s \in Slots :
        /\ At(s, "getSchool", "permission")
        /\ LET user == getBlock(blocks, <<"user", req[s].caller>>) IN
           IF isEmptyObject(user) THEN Respond(s, "Invalid Token")
           ELSE IF user.role = Null THEN Respond(s, "User role not found")
           ELSE IF user.role = "schoolAdmin" /\ req[s].schoolId # Null
           THEN /\ req' = [req EXCEPT ![s].pc = "navRelation",
                                      ![s].callerRole = user.role]
                /\ resp' = NoResp
           ELSE IF sharkIsGranted(user.role, "read", SchoolLayer)
           THEN /\ req' = [req EXCEPT ![s].pc = "getBlock",
                                      ![s].callerRole = user.role]
                /\ resp' = NoResp
           ELSE Respond(s, "Permission denied")
        /\ UNCHANGED <<blocks, rels, nextId, started>>
        /\ UNCHANGED <<authVars, rateVars, created>>

\* getSchool that does not look at the school's members.
GetSchoolNavRelation_anySchool ==
    \E s \in Slots :
        /\ At(s, "getSchool", "navRelation")
        /\ IF sharkIsGranted(req[s].callerRole, "read", SchoolLayer)
           THEN Goto(s, "getBlock")
           ELSE Respond(s, "Permission denied")
        /\ UNCHANGED <<blocks, rels, nextId, started>>
        /\ UNCHANGED <<authVars, rateVars, created>>

\* nav_relation school _members, label user, for the school admin whose block
\* was read: 'Permission denied' unless user:<userId> is among them; then
\* isGranted with the role that was read.
GetSchoolNavRelation ==
    \E s \in Slots :
        /\ At(s, "getSchool", "navRelation")
        /\ IF <<"user", req[s].caller>> \notin
                 DOMAIN navRelation(rels, <<"school", req[s].schoolId>>, "_members", "user")
           THEN Respond(s, "Permission denied")
           ELSE IF sharkIsGranted(req[s].callerRole, "read", SchoolLayer)
           THEN Goto(s, "getBlock")
           ELSE Respond(s, "Permission denied")
        /\ UNCHANGED <<blocks, rels, nextId, started>>
        /\ UNCHANGED <<authVars, rateVars, created>>

\* get_block school; 404 when it is not stored.
GetSchoolGetBlock ==
    \E s \in Slots :
        /\ At(s, "getSchool", "getBlock")
        /\ IF isEmptyObject(getBlock(blocks, <<"school", req[s].schoolId>>))
           THEN Respond(s, "School not found")
           ELSE Respond(s, "{ school }")
        /\ UNCHANGED <<blocks, rels, nextId, started>>
        /\ UNCHANGED <<authVars, rateVars, created>>

(* SchoolManager.assignSchoolAdmin *)

AssignSchoolAdminBegin ==
    /\ started < MaxRequests
    /\ \E s \in Slots, caller \in SchoolCallers, schoolId \in AdminSchoolIds :
        BeginAdmin(s, "assignSchoolAdmin", "permission", caller, schoolId, SchoolAdminId, "")

\* _validatePermission config, without a school id.
AssignSchoolAdminPermission ==
    \E s \in Slots :
        /\ At(s, "assignSchoolAdmin", "permission")
        /\ SchoolPermission(s, "config", Null, "getBlock")
        /\ UNCHANGED <<blocks, rels, nextId, started>>
        /\ UNCHANGED <<authVars, rateVars, created>>

\* get_block school; 404 when it is not stored.
AssignSchoolAdminGetBlock ==
    \E s \in Slots :
        /\ At(s, "assignSchoolAdmin", "getBlock")
        /\ IF isEmptyObject(getBlock(blocks, <<"school", req[s].schoolId>>))
           THEN Respond(s, "School not found")
           ELSE Goto(s, "updateRelations")
        /\ UNCHANGED <<blocks, rels, nextId, started>>
        /\ UNCHANGED <<authVars, rateVars, created>>

\* update_relations school: add _members user~1.
AssignSchoolAdminUpdateRelations ==
    \E s \in Slots :
        /\ At(s, "assignSchoolAdmin", "updateRelations")
        /\ rels' = relationsAdd(rels, <<"school", req[s].schoolId>>, "_members",
                                <<"user", req[s].uid>>, 1)
        /\ Respond(s, "School admin assigned successfully")
        /\ UNCHANGED <<blocks, nextId, started>>
        /\ UNCHANGED <<authVars, rateVars, created>>

(* SchoolManager.createSchool *)

CreateSchoolBegin ==
    /\ started < MaxRequests
    /\ \E s \in Slots, caller \in AdminCallers :
        BeginAdmin(s, "createSchool", "permission", caller, "", "", "")

\* _validatePermission create, without a school id; the error is returned.
\* Otherwise schoolId = nanoid() is drawn and add_block is issued under it.
CreateSchoolPermission ==
    \E s \in Slots :
        /\ At(s, "createSchool", "permission")
        /\ LET error == schoolValidatePermission(req[s].caller, "create", Null) IN
           IF error # ""
           THEN /\ SchoolPermission(s, "create", Null, "addBlock")
                /\ nextId' = nextId
           ELSE /\ nextId < Len(IdPool)
                /\ LET schoolId == IdPool[nextId + 1] IN
                   req' = [req EXCEPT ![s].pc = "addBlock",
                                      ![s].callerRole = storedRole(blocks, req[s].caller),
                                      ![s].schoolId = schoolId]
                /\ nextId' = nextId + 1
                /\ resp' = NoResp
        /\ UNCHANGED <<blocks, rels, started>>
        /\ UNCHANGED <<authVars, rateVars, created>>

\* add_block school is answered: the school is stored under the id the request
\* drew, and { school } is returned.
CreateSchoolAddBlock ==
    \E s \in Slots :
        /\ At(s, "createSchool", "addBlock")
        /\ LET schoolId == req[s].schoolId IN
           /\ blocks' = addBlock(blocks, <<"school", schoolId>>, schoolBlock)
           /\ resp' = [op |-> "createSchool", caller |-> req[s].caller, cid |-> "",
                       sid |-> "", message |-> "{ school }", schoolId |-> schoolId,
                       uid |-> "", role |-> "", callerRole |-> req[s].callerRole,
                       students |-> <<>>]
           /\ req' = [req EXCEPT ![s] = Idle]
        /\ UNCHANGED <<rels, nextId, started>>
        /\ UNCHANGED <<authVars, rateVars, created>>

(* SchoolManager.deleteSchool *)

DeleteSchoolBegin ==
    /\ started < MaxRequests
    /\ \E s \in Slots, caller \in SchoolCallers, schoolId \in AdminSchoolIds :
        BeginAdmin(s, "deleteSchool", "permission", caller, schoolId, "", "")

\* _validatePermission delete, without a school id.
DeleteSchoolPermission ==
    \E s \in Slots :
        /\ At(s, "deleteSchool", "permission")
        /\ SchoolPermission(s, "delete", Null, "getBlock")
        /\ UNCHANGED <<blocks, rels, nextId, started>>
        /\ UNCHANGED <<authVars, rateVars, created>>

\* get_block school; 404 when it is not stored.
DeleteSchoolGetBlock ==
    \E s \in Slots :
        /\ At(s, "deleteSchool", "getBlock")
        /\ IF isEmptyObject(getBlock(blocks, <<"school", req[s].schoolId>>))
           THEN Respond(s, "School not found")
           ELSE Goto(s, "deleteBlock")
        /\ UNCHANGED <<blocks, rels, nextId, started>>
        /\ UNCHANGED <<authVars, rateVars, created>>

\* delete_block school.
DeleteSchoolDeleteBlock ==
    \E s \in Slots :
        /\ At(s, "deleteSchool", "deleteBlock")
        /\ blocks' = deleteBlock(blocks, <<"school", req[s].schoolId>>)
        /\ Goto(s, "deleteRelations")
        /\ UNCHANGED <<rels, nextId, started>>
        /\ UNCHANGED <<authVars, rateVars, created>>

\* delete_relations school.
DeleteSchoolDeleteRelations ==
    \E s \in Slots :
        /\ At(s, "deleteSchool", "deleteRelations")
        /\ rels' = deleteRelations(rels, <<"school", req[s].schoolId>>)
        /\ Respond(s, "School deleted successfully")
        /\ UNCHANGED <<blocks, nextId, started>>
        /\ UNCHANGED <<authVars, rateVars, created>>

\* The users deleteUser is asked to delete, and the users updateUser and
\* assignRole are asked to change.
UserTargets == {SchoolAdminId, TeacherId}
RoleTargets == {TeacherId}
CreateEmails == {NewUserId}
CreateRoles == {"user", "schoolAdmin"}
UpdateRoles == {"user", "schoolAdmin", "superadmin"}
UserLayer == <<"board", "user">>

(* UserManager.createUser *)

CreateUserBegin ==
    /\ started < MaxRequests
    /\ \E s \in Slots, email \in CreateEmails, role \in CreateRoles :
        BeginAdmin(s, "createUser", "addBlock", "", "", email, role)

\* add_block user with the email as id, whatever is stored under it.
CreateUserAddBlock_overwrite ==
    \E s \in Slots :
        /\ At(s, "createUser", "addBlock")
        /\ blocks' = (<<"user", req[s].uid>> :> userBlock(req[s].role)) @@ blocks
        /\ Goto(s, "setPermissions")
        /\ UNCHANGED <<rels, nextId, started>>
        /\ UNCHANGED <<authVars, rateVars, created>>

\* add_block user with the email as id; 409 when the store answers that it
\* already exists.
CreateUserAddBlock ==
    \E s \in Slots :
        /\ At(s, "createUser", "addBlock")
        /\ IF addBlockResult(blocks, <<"user", req[s].uid>>) = "AlreadyExists"
           THEN /\ Respond(s, "Email already exists")
                /\ blocks' = addBlock(blocks, <<"user", req[s].uid>>, userBlock(req[s].role))
           ELSE /\ blocks' = addBlock(blocks, <<"user", req[s].uid>>, userBlock(req[s].role))
                /\ Goto(s, "setPermissions")
        /\ UNCHANGED <<rels, nextId, started>>
        /\ UNCHANGED <<authVars, rateVars, created>>

\* _setPermissions for the new user: one addDirectAccess is answered, in the
\* order of the items; after the last one (or at once for a role without
\* items) the request answers.
CreateUserSetPermissions ==
    \E s \in Slots :
        /\ At(s, "createUser", "setPermissions")
        /\ LET items == permissionItems(req[s].role) IN
           IF items = <<>>
           THEN /\ UNCHANGED grants
                /\ Respond(s, "{ user, longToken }")
           ELSE /\ grants' = addDirectAccess(req[s].uid, items[req[s].item + 1][1],
                                             items[req[s].item + 1][2])
                /\ IF req[s].item + 1 = Len(items)
                   THEN Respond(s, "{ user, longToken }")
                   ELSE /\ req' = [req EXCEPT ![s].item = @ + 1]
                        /\ resp' = NoResp
        /\ UNCHANGED <<blocks, rels, nextId, started>>
        /\ UNCHANGED <<tree, call, rateVars, created>>

(* UserManager.updateUser with a role *)

UpdateUserBegin ==
    /\ started < MaxRequests
    /\ \E s \in Slots, caller \in UserCallers, id \in RoleTargets, role \in UpdateRoles :
        BeginAdmin(s, "updateUser", "permission", caller, "", id, role)

\* shark.isGranted layer board.user, action config, role "superadmin"; 403
\* when it is refused.
UpdateUserPermission ==
    \E s \in Slots :
        /\ At(s, "updateUser", "permission")
        /\ IF ~sharkIsGranted("superadmin", "config", UserLayer)
           THEN Respond(s, "Only superadmin can update user roles")
           ELSE Goto(s, "getBlock")
        /\ UNCHANGED <<blocks, rels, nextId, started>>
        /\ UNCHANGED <<authVars, rateVars, created>>

\* get_block user; 404 when it is not stored.
UpdateUserGetBlock ==
    \E s \in Slots :
        /\ At(s, "updateUser", "getBlock")
        /\ IF isEmptyObject(getBlock(blocks, <<"user", req[s].uid>>))
           THEN Respond(s, "User not found")
           ELSE Goto(s, "setPermissions")
        /\ UNCHANGED <<blocks, rels, nextId, started>>
        /\ UNCHANGED <<authVars, rateVars, created>>

\* updateUser that drops the grants the user held before it stores the new ones.
UpdateUserSetPermissions_revokes ==
    \E s \in Slots :
        /\ At(s, "updateUser", "setPermissions")
        /\ LET items == permissionItems(req[s].role) IN
           IF items = <<>>
           THEN /\ grants' = {g \in grants : g[1] # req[s].uid}
                /\ Goto(s, "updateBlock")
           ELSE /\ grants' = {g \in grants : req[s].item = 0 => g[1] # req[s].uid}
                             \cup {<<req[s].uid, items[req[s].item + 1][1],
                                     items[req[s].item + 1][2]>>}
                /\ IF req[s].item + 1 = Len(items)
                   THEN Goto(s, "updateBlock")
                   ELSE /\ req' = [req EXCEPT ![s].item = @ + 1]
                        /\ resp' = NoResp
        /\ UNCHANGED <<blocks, rels, nextId, started>>
        /\ UNCHANGED <<tree, call, rateVars, created>>

\* _setPermissions for the new role: one addDirectAccess is answered, in the
\* order of the items; after the last one (or at once for a role without
\* items) the request goes on to update_block.
UpdateUserSetPermissions ==
    \E s \in Slots :
        /\ At(s, "updateUser", "setPermissions")
        /\ LET items == permissionItems(req[s].role) IN
           IF items = <<>>
           THEN /\ UNCHANGED grants
                /\ Goto(s, "updateBlock")
           ELSE /\ grants' = addDirectAccess(req[s].uid, items[req[s].item + 1][1],
                                             items[req[s].item + 1][2])
                /\ IF req[s].item + 1 = Len(items)
                   THEN Goto(s, "updateBlock")
                   ELSE /\ req' = [req EXCEPT ![s].item = @ + 1]
                        /\ resp' = NoResp
        /\ UNCHANGED <<blocks, rels, nextId, started>>
        /\ UNCHANGED <<tree, call, rateVars, created>>

\* update_block user: role.
UpdateUserUpdateBlock ==
    \E s \in Slots :
        /\ At(s, "updateUser", "updateBlock")
        /\ blocks' = updateBlock(blocks, <<"user", req[s].uid>>, [role |-> req[s].role])
        /\ Respond(s, "{ user }")
        /\ UNCHANGED <<rels, nextId, started>>
        /\ UNCHANGED <<authVars, rateVars, created>>

(* UserManager.deleteUser *)

DeleteUserBegin ==
    /\ started < MaxRequests
    /\ \E s \in Slots, caller \in UserCallers, id \in UserTargets :
        BeginAdmin(s, "deleteUser", "permission", caller, "", id, "")

\* shark.isGranted layer board.user, action delete, role "superadmin"; 403
\* when it is refused.
DeleteUserPermission ==
    \E s \in Slots :
        /\ At(s, "deleteUser", "permission")
        /\ IF ~sharkIsGranted("superadmin", "delete", UserLayer)
           THEN Respond(s, "Only superadmin can delete users")
           ELSE Goto(s, "getBlock")
        /\ UNCHANGED <<blocks, rels, nextId, started>>
        /\ UNCHANGED <<authVars, rateVars, created>>

\* get_block user; 404 when it is not stored.
DeleteUserGetBlock ==
    \E s \in Slots :
        /\ At(s, "deleteUser", "getBlock")
        /\ IF isEmptyObject(getBlock(blocks, <<"user", req[s].uid>>))
           THEN Respond(s, "User not found")
           ELSE Goto(s, "deleteBlock")
        /\ UNCHANGED <<blocks, rels, nextId, started>>
        /\ UNCHANGED <<authVars, rateVars, created>>

\* deleteUser with a delete_block that fails on an id that is not stored.
DeleteUserDeleteBlock_failsOnAbsent ==
    \E s \in Slots :
        /\ At(s, "deleteUser", "deleteBlock")
        /\ blocks' = deleteBlock(blocks, <<"user", req[s].uid>>)
        /\ IF blockExists(blocks, <<"user", req[s].uid>>)
           THEN Goto(s, "deleteRelations")
           ELSE Respond(s, "Failed to delete user")
        /\ UNCHANGED <<rels, nextId, started>>
        /\ UNCHANGED <<authVars, rateVars, created>>

\* delete_block user.
DeleteUserDeleteBlock ==
    \E s \in Slots :
        /\ At(s, "deleteUser", "deleteBlock")
        /\ blocks' = deleteBlock(blocks, <<"user", req[s].uid>>)
        /\ Goto(s, "deleteRelations")
        /\ UNCHANGED <<rels, nextId, started>>
        /\ UNCHANGED <<authVars, rateVars, created>>

\* deleteUser with a delete_relations that also takes the user out of the
\* relations it is a member of.
DeleteUserDeleteRelations_cascades ==
    \E s \in Slots :
        /\ At(s, "deleteUser", "deleteRelations")
        /\ rels' = LET own == deleteRelations(rels, <<"user", req[s].uid>>) IN
                   [k \in DOMAIN own |->
                      [m \in DOMAIN own[k] \ {<<"user", req[s].uid>>} |-> own[k][m]]]
        /\ Respond(s, "User deleted successfully")
        /\ UNCHANGED <<blocks, nextId, started>>
        /\ UNCHANGED <<authVars, rateVars, created>>

\* delete_relations user.
DeleteUserDeleteRelations ==
    \E s \in Slots :
        /\ At(s, "deleteUser", "deleteRelations")
        /\ rels' = deleteRelations(rels, <<"user", req[s].uid>>)
        /\ Respond(s, "User deleted successfully")
        /\ UNCHANGED <<blocks, nextId, started>>
        /\ UNCHANGED <<authVars, rateVars, created>>

(* PermissionManager.assignRole, getRoles *)

\* getRoles({ userId }): nav_relation _roles of the user, the part of each
\* member after "role:".
getRoles(rs, userId) == {m[2] : m \in DOMAIN relationOf(rs, <<"user", userId>>, "_roles")}

\* assignRole with an update_relations that adds the role to the ones held.
AssignRole_adds ==
    /\ started < MaxRequests
    /\ \E userId \in RoleTargets, role \in RoleInputs :
        /\ rels' = relationsAdd(rels, <<"user", userId>>, "_roles", <<"role", role>>, 1)
        /\ resp' = [NoResp EXCEPT !.op = "assignRole", !.uid = userId, !.role = role]
    /\ started' = started + 1
    /\ UNCHANGED <<blocks, req, nextId>>
    /\ UNCHANGED <<authVars, rateVars, created>>

\* assignRole({ userId, role }): update_relations user set _roles [role].
AssignRole ==
    /\ started < MaxRequests
    /\ \E userId \in RoleTargets, role \in RoleInputs :
        /\ rels' = relationsSet(rels, <<"user", userId>>, "_roles", {<<"role", role>>})
        /\ resp' = [NoResp EXCEPT !.op = "assignRole", !.uid = userId, !.role = role]
    /\ started' = started + 1
    /\ UNCHANGED <<blocks, req, nextId>>
    /\ UNCHANGED <<authVars, rateVars, created>>

NextAdmin ==
    \/ GetSchoolBegin \/ GetSchoolPermission \/ GetSchoolNavRelation
    \/ GetSchoolGetBlock
    \/ AssignSchoolAdminBegin \/ AssignSchoolAdminPermission \/ AssignSchoolAdminGetBlock
    \/ AssignSchoolAdminUpdateRelations
    \/ CreateSchoolBegin \/ CreateSchoolPermission \/ CreateSchoolAddBlock
    \/ DeleteSchoolBegin \/ DeleteSchoolPermission \/ DeleteSchoolGetBlock
    \/ DeleteSchoolDeleteBlock \/ DeleteSchoolDeleteRelations
    \/ UpdateUserBegin \/ UpdateUserPermission \/ UpdateUserGetBlock
    \/ UpdateUserSetPermissions \/ UpdateUserUpdateBlock
    \/ DeleteUserBegin \/ DeleteUserPermission \/ DeleteUserGetBlock
    \/ DeleteUserDeleteBlock \/ DeleteUserDeleteRelations
    \/ AssignRole

SpecAdmin == InitAdmin /\ [][NextAdmin]_vars

\* The requests that call into the engine's store of direct grants, and the
\* deletions of users and schools, in parallel.
NextUser ==
    \/ CreateUserBegin \/ CreateUserAddBlock \/ CreateUserSetPermissions
    \/ UpdateUserBegin \/ UpdateUserPermission \/ UpdateUserGetBlock
    \/ UpdateUserSetPermissions \/ UpdateUserUpdateBlock
    \/ DeleteUserBegin \/ DeleteUserPermission \/ DeleteUserGetBlock
    \/ DeleteUserDeleteBlock \/ DeleteUserDeleteRelations
    \/ DeleteSchoolBegin \/ DeleteSchoolPermission \/ DeleteSchoolGetBlock
    \/ DeleteSchoolDeleteBlock \/ DeleteSchoolDeleteRelations

SpecUser == InitAdmin /\ [][NextUser]_vars

(***************************************************************************)
(* ClassroomManager.createClassroom                                        *)
(***************************************************************************)

\* The resources a createClassroom request carries; a request without
\* resources stores [].
ResourceInputs == {<<>>, <<"Projector">>}

CreateClassroomBegin ==
    /\ started < MaxRequests
    /\ \E s \in Slots, caller \in Callers, schoolId \in SchoolIds,
          resources \in ResourceInputs :
        /\ FreeSlot(s)
        /\ started' = started + 1
        /\ req' = [req EXCEPT ![s] = [Idle EXCEPT !.op = "createClassroom",
                                                  !.pc = "permission",
                                                  !.caller = caller,
                                                  !.schoolId = schoolId,
                                                  !.resources = resources]]
        /\ resp' = NoResp
        /\ UNCHANGED <<blocks, rels, nextId>>
        /\ UNCHANGED <<authVars, rateVars, created>>

\* _validatePermission create; the error is returned.
CreateClassroomPermission ==
    \E s \in Slots :
        /\ At(s, "createClassroom", "permission")
        /\ LET error == validatePermission(req[s].caller, "create", ClassLayer) IN
           IF error # "" THEN Respond(s, error) ELSE Goto(s, "getSchool")
        /\ UNCHANGED <<blocks, rels, nextId, started>>
        /\ UNCHANGED <<authVars, rateVars, created>>

\* get_block school: 'School not found' when it is not stored. Otherwise
\* classroomId = nanoid() is drawn and add_block is issued under it.
CreateClassroomGetSchool ==
    \E s \in Slots :
        /\ At(s, "createClassroom", "getSchool")
        /\ IF isEmptyObject(getBlock(blocks, <<"school", req[s].schoolId>>))
           THEN /\ Respond(s, "School not found")
                /\ nextId' = nextId
           ELSE /\ nextId < Len(IdPool)
                /\ LET classroomId == IdPool[nextId + 1] IN
                   req' = [req EXCEPT ![s].pc = "addBlock", ![s].cid = classroomId]
                /\ nextId' = nextId + 1
                /\ resp' = NoResp
        /\ UNCHANGED <<blocks, rels, started>>
        /\ UNCHANGED <<authVars, rateVars, created>>

\* add_block classroom is answered: the classroom is stored under the id the
\* request drew, with resources || [].
CreateClassroomAddBlock ==
    \E s \in Slots :
        /\ At(s, "createClassroom", "addBlock")
        /\ LET classroomId == req[s].cid IN
           /\ blocks' = addBlock(blocks, <<"classroom", classroomId>>,
                                 classroomBlock(req[s].schoolId, req[s].resources))
           /\ created' = created \cup {classroomId}
        /\ req' = [req EXCEPT ![s].pc = "updateRelations"]
        /\ resp' = NoResp
        /\ UNCHANGED <<rels, nextId, started>>
        /\ UNCHANGED <<authVars, rateVars>>

\* update_relations school: add _members classroom~1; then { classroom }.
CreateClassroomUpdateRelations ==
    \E s \in Slots :
        /\ At(s, "createClassroom", "updateRelations")
        /\ rels' = relationsAdd(rels, <<"school", req[s].schoolId>>, "_members",
                                <<"classroom", req[s].cid>>, 1)
        /\ Respond(s, "{ classroom }")
        /\ UNCHANGED <<blocks, nextId, started>>
        /\ UNCHANGED <<authVars, rateVars, created>>

\* deleteSchool of the school of the classrooms, by the superadmin or the
\* school admin.
DeleteClassSchoolBegin ==
    /\ started < MaxRequests
    /\ \E s \in Slots, caller \in SchoolCallers, schoolId \in SchoolIds :
        BeginAdmin(s, "deleteSchool", "permission", caller, schoolId, "", "")

\* Classrooms and students are created and classrooms and their school are
\* deleted, requests in parallel.
NextClass ==
    \/ CreateClassroomBegin \/ CreateClassroomPermission \/ CreateClassroomGetSchool
    \/ CreateClassroomAddBlock \/ CreateClassroomUpdateRelations
    \/ DeleteClassroomBegin \/ DeleteClassroomGetClassroom \/ DeleteClassroomPermission
    \/ DeleteClassroomNavRelation \/ DeleteClassroomDeleteBlock
    \/ DeleteClassroomUpdateRelations
    \/ CreateStudentBegin \/ CreateStudentPermission \/ CreateStudentAddBlock
    \/ CreateStudentRelations
    \/ DeleteClassSchoolBegin \/ DeleteSchoolPermission \/ DeleteSchoolGetBlock
    \/ DeleteSchoolDeleteBlock \/ DeleteSchoolDeleteRelations

SpecClass == Init /\ [][NextClass]_vars

(***************************************************************************)
(* The engine on its own: calls with inputs from bounded sets              *)
(***************************************************************************)

MaxGrants == 1

AuthUsers == {"admin@mail.com", "teacher@mail.com"}

\* Layer ids asked about: the static nodes, runtime ids below them, ids outside
\* the tree and malformed ids ("" and "board..school").
LayerIds ==
    { <<"board">>,
      <<"board", "school">>,
      <<"board", "school", "class">>,
      <<"board", "school", "class", "student">>,
      <<"board", "school", "7">>,
      <<"board", "school", "class", "42">>,
      <<"board", "school", "7", "classroom", "9">>,
      <<"board", "user", "5">>,
      <<"">>,
      <<"school", "7">>,
      <<"board", "", "school">> }

GrantLayerIds ==
    { <<"board", "school", "7">>,
      <<"board", "school", "class">>,
      <<"board", "school", "class", "student">>,
      <<"board", "user", "5">>,
      <<"school", "7">> }

GrantActions == {"read", "update"}

\* Categories asked about; "stranger" is what an unknown role maps to.
CategoryInputs == Categories \cup {"stranger"}

\* Actions asked about; "fly" is an action the table does not define.
ActionInputs == ActionNames \cup {"fly"}

InitAuth ==
    /\ tree \in TreeInputs
    /\ grants = {}
    /\ call = NoCall
    /\ blocks = <<>>
    /\ rels = <<>>
    /\ req = <<>>
    /\ resp = <<>>
    /\ nextId = 0
    /\ started = 0
    /\ created = {}
    /\ cache = <<>>
    /\ mw = <<>>
    /\ passed = <<>>

\* A manager stores a direct grant.
AddDirectAccess ==
    \E u \in AuthUsers, l \in GrantLayerIds, a \in GrantActions :
        /\ call = NoCall
        /\ Cardinality(addDirectAccess(u, l, a)) <= MaxGrants
        /\ <<u, l, a>> \notin grants
        /\ grants' = addDirectAccess(u, l, a)
        /\ UNCHANGED <<tree, call, rateVars>>
        /\ UNCHANGED storeVars

\* A manager asks for a decision.
IsGranted ==
    \E u \in AuthUsers, c \in CategoryInputs, l \in LayerIds, a \in ActionInputs :
        /\ call = NoCall
        /\ call' = [ op |-> "isGranted", userId |-> u, category |-> c, layerId |-> l,
                     variant |-> "_default", action |-> a,
                     rule |-> resolveRule(l, "_default", c),
                     granted |-> isGranted(u, c, l, a) ]
        /\ UNCHANGED <<tree, grants, rateVars>>
        /\ UNCHANGED storeVars

\* The rule of a category at a node is looked up.
ResolveRule ==
    \E l \in LayerIds, v \in Variants, c \in CategoryInputs :
        /\ call = NoCall
        /\ call' = [ op |-> "resolveRule", userId |-> "", category |-> c, layerId |-> l,
                     variant |-> v, action |-> "",
                     rule |-> resolveRule(l, v, c),
                     granted |-> FALSE ]
        /\ UNCHANGED <<tree, grants, rateVars>>
        /\ UNCHANGED storeVars

\* The call returns to the manager.
Return ==
    /\ call # NoCall
    /\ call' = NoCall
    /\ UNCHANGED <<tree, grants, rateVars>>
    /\ UNCHANGED storeVars

NextAuth == AddDirectAccess \/ IsGranted \/ ResolveRule \/ Return

SpecAuth == InitAuth /\ [][NextAuth]_vars

(***************************************************************************)
(* Rate limiter middleware                                                 *)
(*                                                                         *)
(* One step per awaited cache call.  The cache is the Redis client the     *)
(* middleware is constructed with: get reads a counter, incr creates it at *)
(* 1 or adds 1, expire gives an existing key a time to live, and a key     *)
(* with a time to live disappears when that time is over.                  *)
(***************************************************************************)

MAX_REQUESTS_PER_WINDOW == 100

Ips == {"10.0.0.1"}

RateSlots == {1, 2}

\* const key = `rateLimit:${ip}`
rateKey(ip) == <<"rateLimit", ip>>

RateKeys == {rateKey(ip) : ip \in Ips}

NoKey == [present |-> FALSE, count |-> 0, ttl |-> FALSE]

\* (await cache.get(key)) || 0
currentCountOf(c, key) == IF c[key].present THEN c[key].count ELSE 0

\* cache.incr(key)
cacheIncr(c, key) ==
    [c EXCEPT ![key] = IF @.present THEN [@ EXCEPT !.count = @ + 1]
                       ELSE [present |-> TRUE, count |-> 1, ttl |-> FALSE]]

\* cache.expire(key, WINDOW_SIZE_IN_SECONDS)
cacheExpire(c, key) == IF c[key].present THEN [c EXCEPT ![key].ttl = TRUE] ELSE c

\* An invocation of the middleware: its position and its locals.  stale
\* records that the key's window ended after the request had arrived.
RateIdle == [pc |-> "idle", ip |-> "none", currentCount |-> 0, stale |-> FALSE]

\* The outcome of the invocation that finished last.
NoOutcome == [ip |-> "none", out |-> "none", code |-> 0, failed |-> FALSE, stale |-> FALSE]

InitRate ==
    /\ tree = StaticRoot
    /\ grants = {}
    /\ call = NoCall
    /\ blocks = <<>>
    /\ rels = <<>>
    /\ req = <<>>
    /\ resp = <<>>
    /\ nextId = 0
    /\ started = 0
    /\ created = {}
    /\ cache = [k \in RateKeys |-> NoKey]
    /\ mw = [inflight |-> [s \in RateSlots |-> RateIdle], last |-> NoOutcome]
    /\ passed = [ip \in Ips |-> 0]

RateFreeSlot(s) ==
    /\ mw.inflight[s].pc = "idle"
    /\ \A t \in RateSlots : t < s => mw.inflight[t].pc # "idle"

RateAt(s, pc) == mw.inflight[s].pc = pc

\* next(): the request goes on to the handlers.  passed counts, per IP, the
\* requests of the key's current window that every cache call served.
rateNext(s, failed) ==
    LET r == mw.inflight[s] IN
    /\ mw' = [inflight |-> [mw.inflight EXCEPT ![s] = RateIdle],
              last |-> [ip |-> r.ip, out |-> "next", code |-> 0,
                        failed |-> failed, stale |-> r.stale]]
    /\ passed' = IF failed \/ r.stale THEN passed
                 ELSE [passed EXCEPT ![r.ip] = @ + 1]

\* A request of a client IP reaches the middleware.
RateLimitBegin ==
    \E s \in RateSlots, ip \in Ips :
        /\ RateFreeSlot(s)
        /\ mw' = [inflight |-> [mw.inflight EXCEPT ![s] = [RateIdle EXCEPT !.pc = "get", !.ip = ip]],
                  last |-> NoOutcome]
        /\ UNCHANGED <<cache, passed>>
        /\ UNCHANGED <<authVars, storeVars>>

\* cache.get answers; at the limit the request is ended with 429.
RateLimitGet ==
    \E s \in RateSlots :
        /\ RateAt(s, "get")
        /\ LET r == mw.inflight[s]
               currentCount == currentCountOf(cache, rateKey(r.ip))
           IN IF currentCount >= MAX_REQUESTS_PER_WINDOW
              THEN mw' = [inflight |-> [mw.inflight EXCEPT ![s] = RateIdle],
                          last |-> [ip |-> r.ip, out |-> "end", code |-> 429,
                                    failed |-> FALSE, stale |-> r.stale]]
              ELSE mw' = [inflight |-> [mw.inflight EXCEPT ![s] =
                                            [r EXCEPT !.pc = "incr",
                                                      !.currentCount = currentCount]],
                          last |-> NoOutcome]
        /\ UNCHANGED <<cache, passed>>
        /\ UNCHANGED <<authVars, storeVars>>

\* cache.incr answers; a request that read a counter goes on to next().
RateLimitIncr ==
    \E s \in RateSlots :
        /\ RateAt(s, "incr")
        /\ cache' = cacheIncr(cache, rateKey(mw.inflight[s].ip))
        /\ IF mw.inflight[s].currentCount = 0
           THEN /\ mw' = [inflight |-> [mw.inflight EXCEPT ![s].pc = "expire"],
                          last |-> NoOutcome]
                /\ UNCHANGED passed
           ELSE rateNext(s, FALSE)
        /\ UNCHANGED <<authVars, storeVars>>

\* cache.expire answers for the request that read no counter; then next().
RateLimitExpire ==
    \E s \in RateSlots :
        /\ RateAt(s, "expire")
        /\ cache' = cacheExpire(cache, rateKey(mw.inflight[s].ip))
        /\ rateNext(s, FALSE)
        /\ UNCHANGED <<authVars, storeVars>>

\* A cache call raises: the catch block calls next().
RateLimitCacheError ==
    \E s \in RateSlots :
        /\ mw.inflight[s].pc \in {"get", "incr", "expire"}
        /\ rateNext(s, TRUE)
        /\ UNCHANGED cache
        /\ UNCHANGED <<authVars, storeVars>>

\* The time to live of a key is over: the cache drops the key, and the
\* window of its IP ends.
KeyExpires ==
    \E ip \in Ips :
        /\ cache[rateKey(ip)].present
        /\ cache[rateKey(ip)].ttl
        /\ cache' = [cache EXCEPT ![rateKey(ip)] = NoKey]
        /\ passed' = [passed EXCEPT ![ip] = 0]
        /\ mw' = [inflight |-> [s \in RateSlots |->
                                   IF mw.inflight[s].ip = ip
                                   THEN [mw.inflight[s] EXCEPT !.stale = TRUE]
                                   ELSE mw.inflight[s]],
                  last |-> NoOutcome]
        /\ UNCHANGED <<authVars, storeVars>>

NextRate ==
    \/ RateLimitBegin \/ RateLimitGet \/ RateLimitIncr \/ RateLimitExpire
    \/ RateLimitCacheError \/ KeyExpires

SpecRate == InitRate /\ [][NextRate]_vars

(***************************************************************************)
(* Properties of the engine (checked under SpecAuth)                       *)
(***************************************************************************)

\* The ranks as the specification enumerates them.
StatedRank ==
    [ blocked |-> -1, none |-> 1, read |-> 2, create |-> 3,
      audit |-> 4, config |-> 5, delete |-> 6, update |-> 7 ]

\* Whether the node, or an ancestor its rule sets inherit from, defines a rule
\* for the category.
RECURSIVE ruleOnChain(_, _, _, _)
ruleOnChain(t, path, variant, category) ==
    /\ path # <<>>
    /\ IF path \in DOMAIN t
       THEN \/ canKey(category) \in DOMAIN t[path][variant].can
            \/ /\ t[path][variant].inherit
               /\ ruleOnChain(t, Parent(path), variant, category)
       ELSE ruleOnChain(t, Parent(path), variant, category)

\* The default rule sets of the source tree that define nothing for a category.
NoDefaultRule ==
    { <<StaticRoot, "admin">>, <<StaticRoot, "superAdmin">>,
      <<SchoolLayer, "anyone">>, <<SchoolLayer, "owner">>,
      <<ClassLayer, "anyone">>, <<ClassLayer, "owner">>,
      <<StudentLayer, "anyone">>, <<StudentLayer, "owner">> }

IsCall == call.op \in {"isGranted", "resolveRule"}
NoCoveringGrant == ~hasDirectGrant(call.userId, call.layerId, call.action)

\* C1: when no rule for the category is defined at the node or at an ancestor
\* reached through inheritance, resolveRule returns blocked and isGranted,
\* without a covering direct grant, denies whatever action is requested.
C1_NoRuleIsBlockedAndDenied ==
    IsCall =>
        LET noRule ==
                \/ ~ruleOnChain(tree, call.layerId, call.variant, call.category)
                \/ /\ tree = layers
                   /\ call.variant = "_default"
                   /\ <<call.layerId, call.category>> \in NoDefaultRule
        IN  noRule =>
                /\ call.rule = "blocked"
                /\ (call.op = "isGranted" /\ NoCoveringGrant) => ~call.granted

\* C1 witness: category anyone asks for the lowest-ranked action, blocked, at
\* board.school.class, where nothing is defined for it, and is denied.
C1_Witness ==
    /\ call.op = "isGranted"
    /\ tree = layers
    /\ call.layerId = ClassLayer
    /\ call.category = "anyone"
    /\ call.action = "blocked"
    /\ call.rule = "blocked"
    /\ ~call.granted

\* The actions that name an operation, as opposed to the sentinels.
RealActions == ActionNames \ {"blocked", "none"}

\* C2 as stated (on the repository's tree, for requests of a real action):
\* without a covering direct grant, isGranted grants iff
\* rank(requested action) >= rank(the rule resolveRule returns).
C2_GrantIffRequestedAtLeastRule ==
    ( /\ call.op = "isGranted"
      /\ tree = layers
      /\ NoCoveringGrant
      /\ call.action \in RealActions ) =>
        (call.granted <=> StatedRank[call.action] >= StatedRank[call.rule])

\* C2 amended: without a covering direct grant, isGranted grants iff the layer
\* id is well formed, the rule is not blocked and
\* rank(requested action) <= rank(the rule resolveRule returns).
C2_GrantIffRuleAtLeastRequested ==
    (call.op = "isGranted" /\ NoCoveringGrant /\ call.action \in ActionNames) =>
        (call.granted <=>
            /\ ~malformed(call.layerId)
            /\ call.rule # "blocked"
            /\ StatedRank[call.action] <= StatedRank[call.rule])

\* C2 witness: admin asks for delete (6) where the rule is update (7) and is
\* granted without any direct grant.
C2_Witness ==
    /\ call.op = "isGranted"
    /\ grants = {}
    /\ call.rule = "update"
    /\ call.action = "delete"
    /\ call.granted

\* C3: with the repository's tree and no direct grant, category admin asking
\* for update is granted at board.school.class.42 and denied at board.school.7.
C3_AdminUpdateScenario ==
    ( /\ call.op = "isGranted"
      /\ tree = layers
      /\ call.category = "admin"
      /\ call.action = "update"
      /\ NoCoveringGrant ) =>
        /\ call.layerId = <<"board", "school", "class", "42">> => call.granted
        /\ call.layerId = <<"board", "school", "7">> => ~call.granted

\* C3 witness: the denied half of the scenario has been asked.
C3_Witness ==
    /\ call.op = "isGranted"
    /\ tree = layers
    /\ grants = {}
    /\ call.category = "admin"
    /\ call.action = "update"
    /\ call.layerId = <<"board", "school", "7">>
    /\ call.rule = "read"
    /\ ~call.granted

\* C4: a direct grant (userId, layerId, g) makes isGranted grant, for that user
\* at that layer id, every action of rank <= rank(g), whatever the tree says.
C4_DirectGrantOverrides ==
    call.op = "isGranted" =>
        \A g \in grants :
            ( /\ g[1] = call.userId
              /\ g[2] = call.layerId
              /\ call.action \in ActionNames
              /\ StatedRank[call.action] <= StatedRank[g[3]] ) => call.granted

\* C4 witness: the tree says none for superAdmin at board.school.class.student,
\* and a direct grant of update there grants delete.
C4_Witness ==
    /\ call.op = "isGranted"
    /\ call.layerId = StudentLayer
    /\ call.category = "superAdmin"
    /\ call.rule = "none"
    /\ call.action = "delete"
    /\ <<call.userId, StudentLayer, "update">> \in grants
    /\ call.granted

\* C5: a category a node's rule set defines as blocked or none resolves to that
\* sentinel at the node, never to an ancestor's rule, also when the rule set
\* inherits; so it is for the explicit none entries of the repository's tree.
C5_ExplicitSentinelWins ==
    IsCall =>
        /\ ( /\ call.layerId \in DOMAIN tree
             /\ canKey(call.category) \in DOMAIN tree[call.layerId][call.variant].can
             /\ tree[call.layerId][call.variant].can[canKey(call.category)]
                    \in {"blocked", "none"} )
           => call.rule = tree[call.layerId][call.variant].can[canKey(call.category)]
        /\ ( \/ <<call.layerId, call.variant, call.category>>
                    = <<StudentLayer, "_default", "superAdmin">>
             \/ <<call.layerId, call.variant, call.category>>
                    = <<SchoolLayer, "_public", "anyone">>
             \/ <<call.layerId, call.variant, call.category>>
                    = <<StaticRoot, "_private", "anyone">> )
           => call.rule = "none"

\* C5 witness: board.school defines anyoneCan: none for _public with inherit
\* true, its parent allows create, and the lookup returned none.
C5_Witness ==
    /\ call.op = "resolveRule"
    /\ call.layerId = SchoolLayer
    /\ call.variant = "_public"
    /\ call.category = "anyone"
    /\ tree[SchoolLayer]["_public"].inherit
    /\ tree[StaticRoot]["_public"].can["anyoneCan"] = "create"
    /\ call.rule = "none"

\* The longest prefix of the path that is a node of the tree (<<>> when none).
RECURSIVE deepestStatic(_, _)
deepestStatic(t, path) ==
    IF path = <<>> \/ path \in DOMAIN t THEN path ELSE deepestStatic(t, Parent(path))

\* C6: a layer id that extends a static node by segments the tree does not
\* define resolves, for every variant and category, as that static node does.
C6_RuntimeIdResolvesThroughStaticAncestor ==
    ( /\ IsCall
      /\ call.layerId \notin DOMAIN tree
      /\ deepestStatic(tree, call.layerId) # <<>> ) =>
        call.rule = resolveRule(deepestStatic(tree, call.layerId), call.variant, call.category)

\* C6 witness: board.school.7.classroom.9 resolved to the rule of board.school.
C6_Witness ==
    /\ call.op = "resolveRule"
    /\ call.layerId = <<"board", "school", "7", "classroom", "9">>
    /\ call.variant = "_default"
    /\ call.category = "superAdmin"
    /\ call.rule = "update"

\* C7 as stated (on the repository's tree, for board.user.<id>, a malformed
\* layer id, an unknown role or an unknown action): isGranted returns a boolean
\* and denies unless a direct grant matches.
C7_UnknownAlwaysDenied ==
    ( /\ call.op = "isGranted"
      /\ tree = layers
      /\ call.action \in RealActions \cup {"fly"} ) =>
        /\ call.granted \in BOOLEAN
        /\ ( /\ NoCoveringGrant
             /\ \/ call.layerId = <<"board", "user", "5">>
                \/ malformed(call.layerId)
                \/ call.category \notin Categories
                \/ call.action \notin ActionNames ) => ~call.granted

\* C7 amended: isGranted returns a boolean; without a covering direct grant it
\* denies a malformed layer id, an unknown role and an unknown action; a well
\* formed layer id that is not in the tree is granted exactly what the rule of
\* its deepest static ancestor permits, and nothing when it has no such
\* ancestor; so board.user.<id> is decided by board, which grants anyone the
\* actions up to read and owner the actions up to audit.
C7_UnknownDeniedUnlessAncestorRule ==
    call.op = "isGranted" =>
        /\ call.granted \in BOOLEAN
        /\ NoCoveringGrant =>
            /\ ( \/ malformed(call.layerId)
                 \/ call.category \notin Categories
                 \/ call.action \notin ActionNames ) => ~call.granted
            /\ ( /\ ~malformed(call.layerId)
                 /\ call.layerId \notin DOMAIN tree
                 /\ call.category \in Categories
                 /\ call.action \in ActionNames ) =>
                   LET ancestor == deepestStatic(tree, call.layerId) IN
                   call.granted <=>
                       /\ ancestor # <<>>
                       /\ resolveRule(ancestor, "_default", call.category) # "blocked"
                       /\ StatedRank[call.action]
                            <= StatedRank[resolveRule(ancestor, "_default", call.category)]
            /\ ( /\ call.layerId = <<"board", "user", "5">>
                 /\ call.action \in ActionNames ) =>
                   /\ call.category = "anyone" =>
                        (call.granted <=> StatedRank[call.action] <= StatedRank["read"])
                   /\ call.category = "owner" =>
                        (call.granted <=> StatedRank[call.action] <= StatedRank["audit"])

\* C7 witness: category anyone asks for read at board.user.5 while no direct
\* grant is stored, and is granted by the rule of board.
C7_Witness ==
    /\ call.op = "isGranted"
    /\ grants = {}
    /\ call.layerId = <<"board", "user", "5">>
    /\ call.category = "anyone"
    /\ call.action = "read"
    /\ call.rule = "read"
    /\ call.granted

RankOrder == <<"blocked", "none", "read", "create", "audit", "config", "delete", "update">>

\* C8: the ranks order the actions strictly as blocked < none < read < create <
\* audit < config < delete < update; atLeast(a, a) holds for every action and
\* atLeast(blocked, r) for no other action r.
C8_RankOrder ==
    /\ ActionNames = {RankOrder[i] : i \in 1..Len(RankOrder)}
    /\ \A i, j \in 1..Len(RankOrder) : i < j => rank(RankOrder[i]) < rank(RankOrder[j])
    /\ \A a \in ActionNames : atLeast(a, a)
    /\ \A r \in ActionNames \ {"blocked"} : ~atLeast("blocked", r)
    /\ (call.op = "isGranted" /\ call.rule = "blocked" /\ NoCoveringGrant) => ~call.granted

\* C8 witness: a rule of blocked did not satisfy the lowest threshold, none.
C8_Witness ==
    /\ call.op = "isGranted"
    /\ grants = {}
    /\ call.rule = "blocked"
    /\ call.action = "none"
    /\ ~call.granted


(***************************************************************************)
(* Students and classrooms                                                 *)
(***************************************************************************)

Quiescent == \A s \in Slots : req[s].op = "idle"

studentMembers(rs, cid) == DOMAIN navRelation(rs, <<"classroom", cid>>, "_members", "student")

ClassroomsOf(sid) == {cid \in ClassroomIds : <<"student", sid>> \in studentMembers(rels, cid)}

\* C9: a student belongs to at most one classroom at a time: once every
\* createStudent, addStudent, removeStudent, transferStudent and deleteStudent
\* request has been answered, however they were interleaved, no student is in
\* the _members relation of two different classrooms.
C9_AtMostOneClassroom ==
    Quiescent => \A sid \in KnownIds : Cardinality(ClassroomsOf(sid)) <= 1

\* The step that slot s takes in a deleteClassroom request.
DeleteClassroomStep(s) == req[s].op = "deleteClassroom" /\ req'[s] # req[s]

\* C10: deleteClassroom on a classroom whose _members relation holds a student
\* changes no block and no relation in any step up to its members check, and
\* the members check answers 'Cannot delete classroom with existing students';
\* deleteBlock of the store removes such a classroom when called on its own;
\* when the members check finds no student the request deletes the classroom
\* block and then removes the classroom from the _members of its school.
C10_DeleteClassroomRejectsWithStudents ==
    /\ [][\A s \in Slots :
            DeleteClassroomStep(s) =>
                LET classroomId == <<"classroom", req[s].cid>>
                    students == studentMembers(rels, req[s].cid)
                IN  /\ (students # {} /\ req[s].pc \in {"getClassroom", "permission", "navRelation"})
                          => /\ blocks' = blocks
                             /\ rels' = rels
                             /\ req[s].pc = "navRelation" =>
                                   /\ req'[s] = Idle
                                   /\ resp'.op = "deleteClassroom"
                                   /\ resp'.cid = req[s].cid
                                   /\ resp'.message = "Cannot delete classroom with existing students"
                    /\ (students = {} /\ req[s].pc = "navRelation")
                          => req'[s].pc = "deleteBlock"
                    /\ req[s].pc = "deleteBlock"
                          => /\ ~blockExists(blocks', classroomId)
                             /\ req'[s].pc = "updateRelations"
                    /\ req[s].pc = "updateRelations"
                          => /\ classroomId \notin
                                   DOMAIN relationOf(rels', <<"school", req[s].schoolId>>, "_members")
                             /\ ~blockExists(blocks', classroomId)
                             /\ resp'.message = "Classroom deleted successfully"]_vars
    /\ [](\A cid \in ClassroomIds :
            ~blockExists(deleteBlock(blocks, <<"classroom", cid>>), <<"classroom", cid>>))

\* deleteClassroom of c1, which holds a student, has just been refused, after
\* deleteClassroom of the empty c2 went through.
C10_Witness ==
    /\ resp.op = "deleteClassroom"
    /\ resp.cid = "c1"
    /\ resp.message = "Cannot delete classroom with existing students"
    /\ blockExists(blocks, <<"classroom", "c1">>)
    /\ studentMembers(rels, "c1") # {}
    /\ blockExists(deleteBlock(blocks, <<"classroom", "c1">>), <<"classroom", "c1">>) = FALSE
    /\ ~blockExists(blocks, <<"classroom", "c2">>)
    /\ <<"classroom", "c2">> \notin DOMAIN relationOf(rels, <<"school", "sc1">>, "_members")


(***************************************************************************)
(* Schools and users                                                       *)
(***************************************************************************)

isSchoolMember(rs, schoolId, userId) ==
    <<"user", userId>> \in DOMAIN navRelation(rs, <<"school", schoolId>>, "_members", "user")

\* The step that slot s takes in a request of this operation at this position.
StepAt(s, op, pc) == req[s].op = op /\ req[s].pc = pc /\ req'[s] # req[s]

\* C11: getSchool called by a user whose role is read as schoolAdmin passes
\* its permission check only if user:<userId> is, at the moment the school's
\* members are read, in the _members relation of that school, and is answered
\* 'Permission denied' for every other school; when the school is returned to
\* a school admin the user is in its _members.
C11_GetSchoolOnlyForAssignedAdmin ==
    /\ [][\A s \in Slots :
            /\ (StepAt(s, "getSchool", "permission")
                   /\ storedRole(blocks, req[s].caller) = "schoolAdmin")
               => /\ req'[s].pc = "navRelation"
                  /\ req'[s].callerRole = "schoolAdmin"
            /\ (StepAt(s, "getSchool", "permission") /\ req'[s].pc = "getBlock")
               => req'[s].callerRole # "schoolAdmin"
            /\ StepAt(s, "getSchool", "navRelation")
               => /\ req[s].callerRole = "schoolAdmin"
                  /\ IF isSchoolMember(rels, req[s].schoolId, req[s].caller)
                     THEN req'[s].pc = "getBlock"
                     ELSE /\ req'[s] = Idle
                          /\ resp'.op = "getSchool"
                          /\ resp'.caller = req[s].caller
                          /\ resp'.schoolId = req[s].schoolId
                          /\ resp'.message = "Permission denied"]_vars
    /\ []((resp.op = "getSchool" /\ resp.message = "{ school }"
              /\ resp.callerRole = "schoolAdmin")
            => isSchoolMember(rels, resp.schoolId, resp.caller))

\* The school admin, assigned to sc1, has just been refused sc2.
C11_Witness ==
    /\ resp.op = "getSchool"
    /\ resp.caller = SchoolAdminId
    /\ resp.callerRole = "schoolAdmin"
    /\ resp.schoolId = "sc2"
    /\ resp.message = "Permission denied"
    /\ isSchoolMember(rels, "sc1", SchoolAdminId)
    /\ ~isSchoolMember(rels, "sc2", SchoolAdminId)
    /\ blockExists(blocks, <<"school", "sc2">>)

\* C12: createSchool goes on to create a school block only when the stored
\* role of the calling user is superadmin; a caller whose role is schoolAdmin
\* or user is answered 'Permission denied' and no block or relation changes;
\* the only block a createSchool request adds is the new school.
C12_CreateSchoolOnlySuperadmin ==
    [][\A s \in Slots :
         /\ StepAt(s, "createSchool", "permission") =>
               LET role == storedRole(blocks, req[s].caller) IN
               IF role = "superadmin"
               THEN req'[s].pc = "addBlock" /\ req'[s].callerRole = "superadmin"
               ELSE /\ blocks' = blocks
                    /\ rels' = rels
                    /\ req'[s] = Idle
                    /\ resp'.op = "createSchool"
                    /\ role \in {"schoolAdmin", "user"} => resp'.message = "Permission denied"
         /\ (req[s].op = "createSchool" /\ req'[s] # req[s]
                /\ (blocks' # blocks \/ rels' # rels)) =>
               /\ req[s].callerRole = "superadmin"
               /\ rels' = rels
               /\ resp'.message = "{ school }"
               /\ ~blockExists(blocks, <<"school", resp'.schoolId>>)
               /\ blocks' = (<<"school", resp'.schoolId>> :> schoolBlock) @@ blocks]_vars

\* The school admin has just been refused createSchool, after the superadmin
\* created a school.
C12_Witness ==
    /\ resp.op = "createSchool"
    /\ resp.caller = SchoolAdminId
    /\ resp.callerRole = "schoolAdmin"
    /\ resp.message = "Permission denied"
    /\ \E id \in GeneratedIds : blockExists(blocks, <<"school", id>>)

\* C13: only a superadmin can delete users and change user roles: a deleteUser
\* request, or an updateUser request with a role, changes a block, a relation
\* or a direct grant only when the stored role of the calling user is
\* superadmin.
C13_OnlySuperadminDeletesAndChangesRoles ==
    [][\A s \in Slots :
         (req[s].op \in {"deleteUser", "updateUser"} /\ req'[s] # req[s]
             /\ (blocks' # blocks \/ rels' # rels \/ grants' # grants))
         => storedRole(blocks, req[s].caller) = "superadmin"]_vars

(***************************************************************************)
(* The store under the managers                                            *)
(***************************************************************************)

Scores == {1, 2, 3}

\* Every relation but the one under key k is the same in rs and rt.
SameButRelation(rs, rt, k) ==
    /\ DOMAIN rt \ {k} = DOMAIN rs \ {k}
    /\ \A j \in DOMAIN rs \ {k} : rt[j] = rs[j]

\* Relation new is relation old with member x left out.
WithoutMember(old, new, x) ==
    /\ DOMAIN new = DOMAIN old \ {x}
    /\ \A m \in DOMAIN new : new[m] = old[m]

\* C14: relation round trip: after update_relations add _members [x~1] the
\* relation holds x with score 1, after update_relations remove _members [x] it
\* does not hold x, whatever score x was stored with; the other members of
\* the relation, and every other relation, are the same after either call.
C14_RelationRoundTrip ==
    /\ [][\A s \in Slots :
            LET k == <<(<<"classroom", req[s].cid>>), "_members">>
                x == <<"student", req[s].sid>>
                old == relationOf(rels, k[1], "_members")
                new == relationOf(rels', k[1], "_members")
            IN  /\ StepAt(s, "addStudent", "updateRelations") =>
                      /\ x \in DOMAIN navRelation(rels', k[1], "_members", "student")
                      /\ navRelation(rels', k[1], "_members", "student")[x] = 1
                      /\ WithoutMember(old, [m \in DOMAIN new \ {x} |-> new[m]], x)
                      /\ SameButRelation(rels, rels', k)
                /\ StepAt(s, "removeStudent", "updateRelations") =>
                      /\ x \notin DOMAIN navRelation(rels', k[1], "_members", "student")
                      /\ WithoutMember(old, new, x)
                      /\ SameButRelation(rels, rels', k)]_vars
    /\ [](\A cid \in ClassroomIds, sid \in GeneratedIds, score \in Scores :
            LET id == <<"classroom", cid>>
                x == <<"student", sid>>
                added == relationsAdd(rels, id, "_members", x, score)
                removed == relationsRemove(added, id, "_members", x)
            IN  /\ relationOf(added, id, "_members")[x] = score
                /\ x \notin DOMAIN relationOf(removed, id, "_members")
                /\ WithoutMember(relationOf(added, id, "_members"),
                                 relationOf(removed, id, "_members"), x)
                /\ SameButRelation(rels, removed, <<id, "_members">>))

\* removeStudent has just taken a student out of c1, where it had been put
\* with score 1, and another student is still a member of c1.
C14_Witness ==
    /\ resp.op = "removeStudent"
    /\ resp.cid = "c1"
    /\ resp.message = "Student removed from classroom successfully"
    /\ <<"student", resp.sid>> \notin studentMembers(rels, "c1")
    /\ \E other \in GeneratedIds \ {resp.sid} :
          /\ <<"student", other>> \in studentMembers(rels, "c1")
          /\ relationOf(rels, <<"classroom", "c1">>, "_members")[<<"student", other>>] = 1

\* The step of an update_block classroomId call by slot s.
UpdateBlockStep(s) ==
    \/ StepAt(s, "addStudent", "updateBlock")
    \/ StepAt(s, "removeStudent", "updateBlock")
    \/ StepAt(s, "transferStudent", "updateBlock")

\* C15: block round trip: get_block after add_block returns the attributes
\* supplied; update_block changes exactly the attributes named in its partial
\* and leaves every other attribute and every other block as it was; on an id
\* that is not stored it answers NotFound and creates nothing.
C15_BlockRoundTrip ==
    [][\A s \in Slots :
         LET id == <<"student", req'[s].sid>> IN
         /\ StepAt(s, "createStudent", "addBlock") =>
               /\ getBlock(blocks', id) = studentBlock(req[s].schoolId, req[s].cid)
               /\ \A j \in DOMAIN blocks : j \in DOMAIN blocks' /\ blocks'[j] = blocks[j]
               /\ DOMAIN blocks' = DOMAIN blocks \cup {id}
         /\ UpdateBlockStep(s) =>
               IF blockExists(blocks, id)
               THEN /\ updateBlockResult(blocks, id) = "ok"
                    /\ DOMAIN blocks' = DOMAIN blocks
                    /\ \A j \in DOMAIN blocks \ {id} : blocks'[j] = blocks[j]
                    /\ DOMAIN blocks'[id] = DOMAIN blocks[id]
                    /\ blocks'[id].classroomId =
                          (IF req[s].op = "removeStudent" THEN Null ELSE req[s].cid)
                    /\ \A f \in DOMAIN blocks[id] \ {"classroomId"} :
                          blocks'[id][f] = blocks[id][f]
               ELSE /\ updateBlockResult(blocks, id) = "NotFound"
                    /\ blocks' = blocks]_vars

\* addStudent has put a student created without a classroom into c2: the block
\* names c2 and still has the school and the label it was created with.
C15_Witness ==
    /\ \E s \in Slots :
          /\ At(s, "addStudent", "updateRelations")
          /\ req[s].cid = "c2"
          /\ getBlock(blocks, <<"student", req[s].sid>>) = studentBlock("sc1", "c2")

\* C16: add_block with an id that is already stored answers AlreadyExists and
\* leaves the stored block as it is, and createUser reports the conflict; on
\* an id that is not stored it stores the block supplied; of the createUser
\* requests for one new email that run at the same time at most one gets past
\* add_block.
C16_AddBlockAlreadyExists ==
    /\ [][\A s \in Slots :
            StepAt(s, "createUser", "addBlock") =>
               LET id == <<"user", req[s].uid>> IN
               IF blockExists(blocks, id)
               THEN /\ addBlockResult(blocks, id) = "AlreadyExists"
                    /\ blocks' = blocks
                    /\ grants' = grants
                    /\ req'[s] = Idle
                    /\ resp'.op = "createUser"
                    /\ resp'.message = "Email already exists"
               ELSE /\ addBlockResult(blocks, id) = "ok"
                    /\ getBlock(blocks', id) = userBlock(req[s].role)
                    /\ \A j \in DOMAIN blocks : j \in DOMAIN blocks' /\ blocks'[j] = blocks[j]
                    /\ req'[s].pc = "setPermissions"]_vars
    /\ [](Cardinality({s \in Slots : At(s, "createUser", "setPermissions")
                                      /\ req[s].uid = NewUserId}) <= 1)

\* Two createUser requests for the new email ran at the same time: one stored
\* its block and goes on, the other has just been answered with the conflict
\* and the stored block is the first one's.
C16_Witness ==
    /\ resp.op = "createUser"
    /\ resp.uid = NewUserId
    /\ resp.message = "Email already exists"
    /\ \E s \in Slots :
          /\ At(s, "createUser", "setPermissions")
          /\ req[s].uid = NewUserId
          /\ req[s].role # resp.role
          /\ getBlock(blocks, <<"user", NewUserId>>) = userBlock(req[s].role)

\* The block a deleteUser or deleteSchool request of slot s is about.
DeletedId(s) ==
    IF req[s].op = "deleteUser" THEN <<"user", req[s].uid>>
    ELSE <<"school", req[s].schoolId>>

DeleteStepAt(s, pc) == StepAt(s, "deleteUser", pc) \/ StepAt(s, "deleteSchool", pc)

\* C17: deletion is idempotent: delete_block on an id that is absent, as in
\* the second of two deletes, is no error and changes nothing, and
\* delete_relations on a source that has no relations changes nothing.
C17_DeletionIdempotent ==
    /\ [][\A s \in Slots :
            /\ (DeleteStepAt(s, "deleteBlock") /\ ~blockExists(blocks, DeletedId(s))) =>
                  /\ blocks' = blocks
                  /\ rels' = rels
                  /\ req'[s].pc = "deleteRelations"
            /\ (DeleteStepAt(s, "deleteRelations")
                   /\ \A k \in DOMAIN rels : k[1] # DeletedId(s)) =>
                  /\ rels' = rels
                  /\ blocks' = blocks
                  /\ resp'.message \in {"User deleted successfully",
                                        "School deleted successfully"}]_vars
    /\ [](\A id \in DOMAIN blocks \cup {<<"user", u>> : u \in UserTargets} :
            /\ deleteBlock(deleteBlock(blocks, id), id) = deleteBlock(blocks, id)
            /\ ~blockExists(blocks, id) => deleteBlock(blocks, id) = blocks
            /\ deleteRelations(deleteRelations(rels, id), id) = deleteRelations(rels, id))

\* Two deleteUser requests for one user have both called delete_block: the
\* second call found the block gone.
C17_Witness ==
    \E s, t \in Slots :
        /\ s # t
        /\ At(s, "deleteUser", "deleteRelations")
        /\ At(t, "deleteUser", "deleteRelations")
        /\ req[s].uid = req[t].uid
        /\ ~blockExists(blocks, <<"user", req[s].uid>>)

\* C18: delete_relations removes every relation whose source is the id and
\* changes no relation of another source: an id that is a member of relations
\* of other sources is still their member, so a user who was a member of a
\* school is still in its _members after deleteUser.
C18_DeleteRelationsFrame ==
    [][\A s \in Slots :
         DeleteStepAt(s, "deleteRelations") =>
            /\ DOMAIN rels' = {k \in DOMAIN rels : k[1] # DeletedId(s)}
            /\ \A k \in DOMAIN rels' : rels'[k] = rels[k]
            /\ req[s].op = "deleteUser" =>
                  \A schoolId \in AdminSchoolIds :
                      isSchoolMember(rels, schoolId, req[s].uid)
                          => isSchoolMember(rels', schoolId, req[s].uid)]_vars

\* deleteUser of the school admin of sc1 has just ended: the user block and the
\* roles of the user are gone, the user is still a member of sc1 and the roles
\* of the teacher are still there.
C18_Witness ==
    /\ resp.op = "deleteUser"
    /\ resp.uid = SchoolAdminId
    /\ resp.message = "User deleted successfully"
    /\ ~blockExists(blocks, <<"user", SchoolAdminId>>)
    /\ <<(<<"user", SchoolAdminId>>), "_roles">> \notin DOMAIN rels
    /\ isSchoolMember(rels, "sc1", SchoolAdminId)
    /\ getRoles(rels, TeacherId) = {"user"}

\* C19: update_relations with set replaces the named relation: when
\* assignRole(userId, r) has completed, getRoles(userId) is exactly [r]
\* whatever roles the user had, and every relation with another name or
\* another source id is as it was.
C19_AssignRoleReplaces ==
    [][(resp'.op = "assignRole" /\ started' # started) =>
          /\ getRoles(rels', resp'.uid) = {resp'.role}
          /\ DOMAIN relationOf(rels', <<"user", resp'.uid>>, "_roles")
                = {<<"role", resp'.role>>}
          /\ SameButRelation(rels, rels', <<(<<"user", resp'.uid>>), "_roles">>)]_vars

\* assignRole has just made the teacher a superadmin: user, the role held
\* before, is gone, and the school admin has the role it had.
C19_Witness ==
    /\ resp.op = "assignRole"
    /\ resp.uid = TeacherId
    /\ resp.role = "superadmin"
    /\ getRoles(rels, TeacherId) = {"superadmin"}
    /\ getRoles(rels, SchoolAdminId) = {"schoolAdmin"}

(***************************************************************************)
(* The rate limiter (checked under SpecRate)                               *)
(***************************************************************************)

\* C20: per client IP, at most MAX_REQUESTS_PER_WINDOW requests of one
\* window of the key reach next(), requests in flight at the same time
\* included (requests let through because the cache raised are not counted).
C20_AtMostLimitPerWindow ==
    \A ip \in Ips : passed[ip] <= MAX_REQUESTS_PER_WINDOW

(***************************************************************************)
(* Students: deletion, transfer and membership                             *)
(***************************************************************************)

schoolMembers(rs, schoolId) == DOMAIN relationOf(rs, <<"school", schoolId>>, "_members")

\* deleteStudent has just answered with success.
DeleteStudentDone == resp.op = "deleteStudent" /\ resp.message = "Student deleted successfully"

\* C21: when deleteStudent(s) answers 'Student deleted successfully', the
\* student block is gone and s is a member neither of the _members relation of
\* the classroom it was read in nor of that of its school, so that the members
\* check of a following deleteClassroom finds no s there.
C21_DeleteStudentLeavesNoMember ==
    DeleteStudentDone =>
        /\ ~blockExists(blocks, <<"student", resp.sid>>)
        /\ <<"student", resp.sid>> \notin studentMembers(rels, resp.cid)
        /\ <<"student", resp.sid>> \notin schoolMembers(rels, resp.schoolId)

\* The step in which slot s answers its transferStudent request with success.
TransferStudentDone(s) ==
    /\ StepAt(s, "transferStudent", "relations")
    /\ resp'.op = "transferStudent"
    /\ resp'.message = "Student transferred successfully"

\* C22: transferStudent(s, c2) answers 'New classroom not found' when c2 is not
\* stored and 'Cannot transfer ...' when c2 is of another school than s, and
\* then changes nothing; no step of it changes the school's _members; when it
\* answers with success, s.classroomId = c2, s is in c2's _members and s is
\* not in the _members of the classroom it was in before.
C22_TransferStudentMoves ==
    [][\A s \in Slots :
          LET student == <<"student", req[s].sid>>
              newClassroom == getBlock(blocks, <<"classroom", req[s].cid>>)
          IN  /\ StepAt(s, "transferStudent", "getClassroom") =>
                    /\ blocks' = blocks /\ rels' = rels
                    /\ isEmptyObject(newClassroom) =>
                          resp'.message = "New classroom not found"
                    /\ (~isEmptyObject(newClassroom) /\ newClassroom.schoolId # req[s].schoolId) =>
                          resp'.message = "Cannot transfer student to a classroom in a different school"
                    /\ (~isEmptyObject(newClassroom) /\ newClassroom.schoolId = req[s].schoolId) =>
                          req'[s].pc = "updateBlock"
              /\ req[s].op = "transferStudent" /\ req'[s] # req[s] =>
                    schoolMembers(rels', req[s].schoolId) = schoolMembers(rels, req[s].schoolId)
              /\ TransferStudentDone(s) =>
                    /\ blockExists(blocks', student)
                    /\ blocks'[student].classroomId = req[s].cid
                    /\ student \in studentMembers(rels', req[s].cid)
                    /\ \A old \in ClassroomIds \ {req[s].cid} :
                          student \notin studentMembers(rels', old)]_vars

(***************************************************************************)
(* Direct grants under the managers (checked under SpecUser)               *)
(***************************************************************************)

\* The category the engine is asked with for a user: that of its stored role.
storedCategory(bs, userId) == categoryOf(storedRole(bs, userId))

\* C23 as stated: direct grants only accumulate: after every step of
\* createUser, updateUser, deleteUser, deleteSchool and the other requests the
\* user of each direct grant holds at its layer a grant of the same or a
\* higher action, and isGranted still grants the user the action of the grant
\* at its layer, whatever role the user block holds by then or whether the
\* user block is still stored.
C23_GrantsOnlyAccumulate ==
    [][\A g \in grants :
          /\ \E h \in grants' : h[1] = g[1] /\ h[2] = g[2] /\ atLeast(h[3], g[3])
          /\ isGranted(g[1], storedCategory(blocks, g[1]), g[2], g[3])']_vars

\* The step in which slot s has one addDirectAccess of _setPermissions answered,
\* and the item it was called with.
SetsPermission(s) ==
    /\ req[s].op \in {"createUser", "updateUser"}
    /\ req[s].pc = "setPermissions"
    /\ req'[s] # req[s]
    /\ permissionItems(req[s].role) # <<>>
permissionItem(s) == permissionItems(req[s].role)[req[s].item + 1]

\* C23 amended: no step removes the direct grant a user holds at a layer; the
\* grants change only when an addDirectAccess of _setPermissions is answered,
\* which stores the action of its item at (userId, layer of the item) in place
\* of the action held there and leaves every other grant as it is; so steps
\* of deleteUser, deleteSchool and updateUser to the role user change no
\* grant; and after every step isGranted grants the user of each grant its
\* action at its layer, whatever role the user block holds by then or whether
\* the user block is still stored.
C23_GrantsNeverRemoved ==
    [][/\ \A g \in grants : \E h \in grants' : h[1] = g[1] /\ h[2] = g[2]
       /\ grants' # grants =>
             \E s \in Slots :
                 /\ SetsPermission(s)
                 /\ <<req[s].uid, permissionItem(s)[1], permissionItem(s)[2]>> \in grants'
                 /\ \A g \in grants \cup grants' :
                        (g[1] # req[s].uid \/ g[2] # permissionItem(s)[1])
                            => (g \in grants /\ g \in grants')
       /\ \A s \in Slots :
             ( /\ req'[s] # req[s]
               /\ \/ req[s].op \in {"deleteUser", "deleteSchool"}
                  \/ req[s].op = "updateUser" /\ req[s].role = "user" )
                => grants' = grants
       /\ \A g \in grants' :
             isGranted(g[1], storedCategory(blocks, g[1]), g[2], g[3])']_vars

\* updateUser has just answered for the teacher, whose role it set to user after
\* an earlier updateUser had made them superadmin: the grants of a superadmin
\* are still held and isGranted grants through them.
C23_Witness ==
    /\ resp.op = "updateUser"
    /\ resp.message = "{ user }"
    /\ resp.uid = TeacherId
    /\ resp.role = "user"
    /\ storedRole(blocks, TeacherId) = "user"
    /\ rolePermissions(TeacherId, "superadmin") \subseteq grants
    /\ \A g \in rolePermissions(TeacherId, "superadmin") :
          isGranted(TeacherId, storedCategory(blocks, TeacherId), g[2], g[3])

(***************************************************************************)
(* A createStudent that stops half way (checked under SpecCrash)           *)
(***************************************************************************)

\* The student is stored and is a member of exactly one of the two relations
\* createStudent writes for it.
PartlyLinked(bs, rs, sid) ==
    LET student == <<"student", sid>> IN
    /\ blockExists(bs, student)
    /\ (student \in DOMAIN relationOf(rs, <<"classroom", bs[student].classroomId>>, "_members"))
         # (student \in schoolMembers(rs, bs[student].schoolId))

\* The step in which slot s stops in createStudent without a response.
CreateStudentStops(s) ==
    /\ StepAt(s, "createStudent", "relations")
    /\ req'[s] = Idle
    /\ resp' = NoResp

\* The step in which createStudent of slot s completes the first of its two
\* update_relations.
CreateStudentLinksFirst(s) ==
    /\ StepAt(s, "createStudent", "relations")
    /\ req[s].pend = {"classroom", "school"}
    /\ req'[s].pend \in {{"classroom"}, {"school"}}

\* C24: the two update_relations of createStudent are not one step: after the
\* first the student block is stored and the student is a member of exactly
\* one of the classroom's and the school's _members; a createStudent that
\* stops there writes nothing more; while no request names that student,
\* every step of the system leaves it a member of exactly one; and no step
\* other than createStudent's own update_relations adds a student to a
\* school's _members.
C24_PartialStateStays ==
    [][/\ \A s \in Slots :
            /\ CreateStudentLinksFirst(s) => PartlyLinked(blocks', rels', req[s].sid)
            /\ CreateStudentStops(s) => (blocks' = blocks /\ rels' = rels)
       /\ \A sid \in GeneratedIds :
            (PartlyLinked(blocks, rels, sid) /\ \A s \in Slots : req[s].sid # sid)
               => PartlyLinked(blocks', rels', sid)
       /\ \A sid \in GeneratedIds, schoolId \in SchoolIds :
            (/\ <<"student", sid>> \notin schoolMembers(rels, schoolId)
             /\ <<"student", sid>> \in schoolMembers(rels', schoolId))
               => \E s \in Slots : /\ StepAt(s, "createStudent", "relations")
                                   /\ req[s].sid = sid]_vars

\* The only createStudent so far stopped half way: its student is stored and is
\* in the classroom's _members, not in the school's, and no request names it.
C24_Witness ==
    /\ nextId = 1
    /\ started = 2
    /\ \A s \in Slots : req[s].sid # "s1"
    /\ blockExists(blocks, <<"student", "s1">>)
    /\ blocks[<<"student", "s1">>].classroomId = "c1"
    /\ <<"student", "s1">> \in studentMembers(rels, "c1")
    /\ <<"student", "s1">> \notin schoolMembers(rels, "sc1")

(***************************************************************************)
(* Members by label (checked under SpecList)                               *)
(***************************************************************************)

\* The members of a relation whose id carries the label.
membersLabelled(rs, id, relation, label) ==
    {m \in DOMAIN relationOf(rs, id, relation) : m[1] = label}

\* The step in which slot s of listSchoolStudents reads the relation.
ListSchoolStudentsReads(s) == StepAt(s, "listSchoolStudents", "navRelation")

\* The step in which slot s of listSchoolStudents returns its list.
ListSchoolStudentsDone(s) ==
    /\ req[s].op = "listSchoolStudents"
    /\ req[s].pc \in {"navRelation", "getBlock"}
    /\ req'[s] = Idle
    /\ resp'.op = "listSchoolStudents"
    /\ resp'.message = "{ students }"

\* navRelation with a label returns exactly the members whose label is the one
\* asked for, with their scores; the ids listSchoolStudents fetches are exactly
\* the student members of the school, none of its classrooms or admin users,
\* and every entry it returns is what get_block answered for one of these ids;
\* deleteClassroom is refused exactly when the classroom has a student among
\* its members.
NavRelationByLabel ==
    /\ [](\A k \in DOMAIN rels, label \in {"student", "classroom", "user"} :
            LET nav == navRelation(rels, k[1], k[2], label) IN
            /\ DOMAIN nav = membersLabelled(rels, k[1], k[2], label)
            /\ \A m \in DOMAIN nav : nav[m] = rels[k][m])
    /\ [][\A s \in Slots :
            /\ (ListSchoolStudentsReads(s) /\ req'[s].pc = "getBlock") =>
                  /\ req'[s].pend = membersLabelled(rels, <<"school", req[s].schoolId>>,
                                                    "_members", "student")
                  /\ req'[s].pend # {}
            /\ (ListSchoolStudentsReads(s) /\ req'[s] = Idle) =>
                  /\ membersLabelled(rels, <<"school", req[s].schoolId>>, "_members", "student") = {}
                  /\ resp'.students = <<>>
            /\ ListSchoolStudentsDone(s) =>
                  /\ DOMAIN resp'.students = DOMAIN req[s].students
                  /\ \A id \in DOMAIN resp'.students :
                        /\ id[1] = "student"
                        /\ resp'.students[id].label \in {"student", ""}
                        /\ resp'.students[id].label = "" => ~blockExists(blocks', id)
            /\ StepAt(s, "deleteClassroom", "navRelation") =>
                  ((resp'.message = "Cannot delete classroom with existing students")
                     <=> membersLabelled(rels, <<"classroom", req[s].cid>>,
                                         "_members", "student") # {})]_vars

\* C25: every entry listSchoolStudents returns is a student block: the school's
\* _members also holds classrooms and admin users, and none of them, nor
\* anything else that is not a student block, is in the list.
C25_ListReturnsOnlyStudentBlocks ==
    [][\A s \in Slots :
          ListSchoolStudentsDone(s) =>
              \A id \in DOMAIN resp'.students : resp'.students[id].label = "student"]_vars

(***************************************************************************)
(* Direct grants are exact (checked under SpecAuth)                        *)
(***************************************************************************)

\* What isGranted decides for the call without any direct grant: a malformed
\* layer id is denied, otherwise the static tree decides.
StaticDecision ==
    /\ ~malformed(call.layerId)
    /\ call.rule # "blocked"
    /\ atLeast(call.rule, call.action)

\* C26: a direct grant counts only for its user at exactly its layer id: when
\* the user asked about holds no grant at exactly the layer id asked about,
\* whatever is granted to other users, at ancestors or at descendants of that
\* layer id, isGranted answers what the static tree alone decides.
C26_DirectGrantIsExact ==
    (call.op = "isGranted" /\ ~\E g \in grants : g[1] = call.userId /\ g[2] = call.layerId)
        => (call.granted <=> StaticDecision)

\* The admin holds update at board.school.class, as _setPermissions stores it,
\* and asks for update at board.school.7.classroom.9: the tree allows an admin
\* read there and the call is refused; the grant covers the action asked for.
C26_Witness ==
    /\ call.op = "isGranted"
    /\ tree = layers
    /\ grants = {<<"admin@mail.com", ClassLayer, "update">>}
    /\ call.userId = "admin@mail.com"
    /\ call.category = "admin"
    /\ call.layerId = <<"board", "school", "7", "classroom", "9">>
    /\ call.action = "update"
    /\ call.rule = "read"
    /\ ~call.granted

(***************************************************************************)
(* Blocks and relations agree (checked under Spec)                         *)
(***************************************************************************)

\* C27: whenever no request is in progress, a student is in a classroom's
\* _members relation if and only if the student block is stored with that
\* classroom as its classroomId.
C27_MembershipMatchesClassroomId ==
    Quiescent =>
        \A sid \in GeneratedIds, cid \in ClassroomIds :
            (<<"student", sid>> \in studentMembers(rels, cid))
              <=> ( /\ blockExists(blocks, <<"student", sid>>)
                    /\ blocks[<<"student", sid>>].classroomId = cid )

\* C28: whenever no request is in progress, every classroom block's schoolId
\* names a stored school block, and every student block's schoolId and
\* non-null classroomId name a stored school and a stored classroom block.
C28_ReferencesNameStoredBlocks ==
    Quiescent =>
        \A id \in DOMAIN blocks :
            /\ blocks[id].label = "classroom"
                  => blockExists(blocks, <<"school", blocks[id].schoolId>>)
            /\ blocks[id].label = "student"
                  => /\ blockExists(blocks, <<"school", blocks[id].schoolId>>)
                     /\ blocks[id].classroomId # Null
                           => blockExists(blocks, <<"classroom", blocks[id].classroomId>>)

(***************************************************************************)
(* Resources of a classroom (checked under SpecRes)                        *)
(***************************************************************************)

storedResources(bs, cid) ==
    LET resources == resourcesOf(getBlock(bs, <<"classroom", cid>>)) IN
    {resources[i] : i \in 1..Len(resources)}

ResourceWritten(s, op) ==
    /\ StepAt(s, op, "updateBlock")
    /\ resp'.message = "{ classroom }"

\* C29: resource updates of one classroom are not lost: an addResource that
\* reports success leaves the classroom with the resources it held just before
\* plus the one added, a removeResource that reports success takes away only
\* the resource it names, and the stored array never holds a resource twice.
C29_ResourceUpdatesNotLost ==
    /\ [][\A s \in Slots :
            /\ ResourceWritten(s, "addResource")
                  => storedResources(blocks', req[s].cid)
                       = storedResources(blocks, req[s].cid) \cup {req[s].resource}
            /\ ResourceWritten(s, "removeResource")
                  => storedResources(blocks', req[s].cid)
                       = storedResources(blocks, req[s].cid) \ {req[s].resource}]_vars
    /\ [](\A cid \in ClassroomIds :
            LET resources == resourcesOf(getBlock(blocks, <<"classroom", cid>>)) IN
            \A i, j \in 1..Len(resources) : resources[i] = resources[j] => i = j)

(***************************************************************************)
(* Rate limiter: cache failures and expiry (checked under SpecRate)        *)
(***************************************************************************)

\* The step in which a cache call of slot s raises.
CacheRaises(s) ==
    /\ mw.inflight[s].pc \in {"get", "incr", "expire"}
    /\ mw'.inflight[s].pc = "idle"
    /\ mw'.last.failed

\* C30: a request whose cache call raises is passed to next() and is not
\* ended with 429; and a counter key that was incremented has a time to live,
\* except while the request that created it is between its incr and its
\* expire.
C30_FailOpenAndKeysExpire ==
    /\ [][\A s \in RateSlots :
            CacheRaises(s) => /\ mw'.last.out = "next"
                              /\ mw'.last.ip = mw.inflight[s].ip
                              /\ mw'.last.code # 429]_vars
    /\ [](\A ip \in Ips :
            (cache[rateKey(ip)].present /\ ~cache[rateKey(ip)].ttl)
                => \E s \in RateSlots : /\ mw.inflight[s].ip = ip
                                        /\ mw.inflight[s].pc = "expire")

====
